---- MODULE Spec2Model ----
(***************************************************************************)
(* Session and transaction state storage of auth0-hono: the stateless      *)
(* (chunked cookie) session store, the stateful (handle cookie + external  *)
(* store) session store, and the browser that applies their Set-Cookie     *)
(* headers.                                                                *)
(*                                                                         *)
(* Strings handed to the cookie layer are modelled symbolically: a string  *)
(* is a sequence of segments, a segment being the characters lo..hi-1 of   *)
(* one ciphertext.  Two adjacent segments of the same ciphertext that      *)
(* continue each other are merged, so a string is the whole ciphertext     *)
(* exactly when it is the single segment 0..length of it.  This keeps the  *)
(* real chunk size (3072) and the real chunk ceiling (10).                 *)
(***************************************************************************)
EXTENDS Integers, Sequences, FiniteSets, TLC

(***************************************************************************)
(* Bounds of the model                                                     *)
(***************************************************************************)
\* the clock runs from 0 to MaxTime seconds
MaxTime == 2
\* number of session ids the id generator can hand out in one behaviour
MaxIds == 2

(***************************************************************************)
(* Program constants                                                       *)
(***************************************************************************)
\* Date.now() is in milliseconds; the stores divide by 1000
MsPerSec == 1000
\* StatelessStateStore.set: const chunkSize = 3072
ChunkSize == 3072
\* StatelessStateStore.set: if (chunkCount > 10) throw
ChunkLimit == 10
\* StatelessStateStore.set / get / delete: for (let i = 0; i < 10; i++), Array(10)
SetScanWidth == 10
GetScanWidth == 10
DeleteScanWidth == 10

(***************************************************************************)
(* Optional values: <<>> is undefined, <<v>> is the value v                *)
(***************************************************************************)
Undefined == << >>
Some(v) == << v >>
IsSome(o) == o # << >>
Get(o) == o[1]

Min(a, b) == IF a < b THEN a ELSE b
Max(a, b) == IF a > b THEN a ELSE b
\* Math.ceil(a / b) for a >= 0, b > 0
CeilDiv(a, b) == (a + b - 1) \div b

(***************************************************************************)
(* Inputs                                                                  *)
(***************************************************************************)
\* the state identifier (cookie name) the client passes to the stores
Identifier == "appSession"
\* createdAt of a session payload, epoch seconds
CreatedAts == {0}
\* length of the encrypted form of a session payload: at and above one
\* chunk, three chunks, and at and above the ceiling of 10 chunks
EncLengths == {ChunkSize, ChunkSize + 1, 7000,
               ChunkSize * ChunkLimit, ChunkSize * ChunkLimit + 1}
\* session payloads (StateData): internal.createdAt and the data, which
\* decides the length of the encrypted form
Payloads == [createdAt : CreatedAts, size : EncLengths]
\* the random part (IV) of one encryption of a session payload, and of a
\* session handle
IVs == {0, 1}
HandleIVs == {0}
\* session configurations (rolling, absoluteDuration, inactivityDuration)
Configs == [rolling : BOOLEAN, absoluteDuration : {2}, inactivityDuration : {1}]
\* the requests that can be in flight
Reqs == {1, 2}
\* the session ids generateId can return, in the order it returns them
Ids == 1..MaxIds
\* the session payloads handed to the stateful store
StatefulPayloads == {p \in Payloads : p.size \in {ChunkSize, 7000}}

(***************************************************************************)
(* Cookie names                                                            *)
(***************************************************************************)
\* `${identifier}.${i}`
ChunkName(identifier, i) == identifier \o "." \o ToString(i)
\* the names the browser may hold a cookie under: the handle / transaction
\* cookie and the chunk cookies 0..10 (10 is one beyond the scan width)
CookieNames == {Identifier} \cup {ChunkName(Identifier, i) : i \in 0..ChunkLimit}

(***************************************************************************)
(* Encryption boundary (AbstractStateStore.encrypt / decrypt of            *)
(* @auth0/auth0-server-js): a ciphertext is bound to the identifier,       *)
(* carries the payload and the expiry of its envelope (kept here in        *)
(* milliseconds, the code's seconds times 1000) and is made unique by a    *)
(* random IV.                                                              *)
(***************************************************************************)
encrypt(identifier, body, expMs, iv) ==
    [ident |-> identifier, body |-> body, exp |-> expMs, iv |-> iv]
\* length of the ciphertext string: a handle {id} is short, a session
\* payload has the length its data gives it
EncLen(ct) == IF "size" \in DOMAIN ct.body THEN ct.body.size ELSE 1
\* the string that is the whole ciphertext
StringOf(ct) == << [ct |-> ct, lo |-> 0, hi |-> EncLen(ct)] >>
\* the envelope check of decrypt: exp <= now (epoch seconds) is expired
EnvelopeExpired(ct, nowMs) == ct.exp <= (nowMs \div MsPerSec) * MsPerSec
\* a decrypt that accepts a ciphertext with a part cut out of its middle
DecryptOkAnyPieces(identifier, s, nowMs) ==
    /\ Len(s) >= 1
    /\ s[1].lo = 0
    /\ s[Len(s)].hi = EncLen(s[1].ct)
    /\ s[1].ct.ident = identifier
    /\ ~EnvelopeExpired(s[1].ct, nowMs)
\* decrypt(identifier, value): the payload, or a failure on a string that
\* is no whole ciphertext (tampered, truncated, mixed), on a ciphertext
\* bound to another identifier and on an expired envelope
DecryptOk(identifier, s, nowMs) ==
    /\ Len(s) = 1
    /\ s[1].lo = 0
    /\ s[1].hi = EncLen(s[1].ct)
    /\ s[1].ct.ident = identifier
    /\ ~EnvelopeExpired(s[1].ct, nowMs)
decrypt(identifier, s, nowMs) ==
    IF DecryptOk(identifier, s, nowMs)
    THEN [k |-> "ok", v |-> s[1].ct.body]
    ELSE [k |-> "error", e |-> "decrypt"]

(***************************************************************************)
(* Strings                                                                 *)
(***************************************************************************)
\* encryptedStateData.substring(a, b), for 0 <= a <= b
Substring(ct, a, b) ==
    LET lo == Min(a, EncLen(ct))
        hi == Min(b, EncLen(ct))
    IN  IF lo < hi THEN << [ct |-> ct, lo |-> lo, hi |-> hi] >> ELSE << >>
\* s \o t with the two segments at the seam merged when t continues s
Concat(s, t) ==
    IF s = << >> THEN t
    ELSE IF t = << >> THEN s
    ELSE LET a == s[Len(s)]
             b == t[1]
         IN  IF a.ct = b.ct /\ a.hi = b.lo
             THEN SubSeq(s, 1, Len(s) - 1)
                    \o << [ct |-> a.ct, lo |-> a.lo, hi |-> b.hi] >>
                    \o SubSeq(t, 2, Len(t))
             ELSE s \o t
\* Array.prototype.join(""): undefined joins as the empty string
RECURSIVE Join(_)
Join(items) ==
    IF items = << >> THEN << >>
    ELSE Concat(IF IsSome(items[1]) THEN Get(items[1]) ELSE << >>,
                Join(Tail(items)))
RECURSIVE StrLen(_)
StrLen(s) == IF s = << >> THEN 0 ELSE (s[1].hi - s[1].lo) + StrLen(Tail(s))

(***************************************************************************)
(* Expiration policy                                                       *)
(***************************************************************************)
\* (Date.now() / 1000) | 0 for a clock below 2^31 seconds, where | 0 only
\* drops the fraction; ToInt32 below gives it for every clock
EpochSeconds(nowMs) == nowMs \div MsPerSec
\* the same for a clock that reads sec seconds and ms milliseconds
EpochSecondsOf(sec, ms) == sec + ms \div MsPerSec
\* an expiry that forgets the inactivity window
ExpiresAtAbsoluteOnly(cfg, createdAt, now) == createdAt + cfg.absoluteDuration
\* an expiry that forgets the absolute cap
ExpiresAtInactivityOnly(cfg, createdAt, now) == now + cfg.inactivityDuration
\* Math.min(now + inactivityDuration, createdAt + absoluteDuration)
ExpiresAt(cfg, createdAt, now) ==
    Min(now + cfg.inactivityDuration, createdAt + cfg.absoluteDuration)
\* a max-age that is not floored
FloorAtZeroMissing(maxAge) == maxAge
\* maxAge > 0 ? maxAge : 0
FloorAtZero(maxAge) == IF maxAge > 0 THEN maxAge ELSE 0
\* a max-age that takes the rolling branch whatever the configuration
maxAgeAtAlwaysRolling(cfg, createdAt, now) ==
    FloorAtZero(ExpiresAt(cfg, createdAt, now) - now)
\* AbstractSessionStore.calculateMaxAge, with now the epoch second it reads
maxAgeAt(cfg, createdAt, now) ==
    IF ~cfg.rolling
    THEN cfg.absoluteDuration
    ELSE LET expiresAt == ExpiresAt(cfg, createdAt, now)
             maxAge == expiresAt - now
         IN  FloorAtZero(maxAge)
\* AbstractSessionStore.calculateMaxAge
calculateMaxAge(cfg, createdAt, nowMs) ==
    maxAgeAt(cfg, createdAt, EpochSeconds(nowMs))

(***************************************************************************)
(* Cookie transport                                                        *)
(***************************************************************************)
\* HonoCookieHandler.setCookie: one Set-Cookie header of the response
setCookie(name, value, opts) ==
    [name |-> name, val |-> value, maxAge |-> opts.maxAge, path |-> opts.path,
     httpOnly |-> opts.httpOnly, sameSite |-> opts.sameSite,
     secure |-> opts.secure]
\* HonoCookieHandler.deleteCookie: setCookie(ctx, name, "", {path: "/", maxAge: 0})
deleteCookie(name) ==
    [name |-> name, val |-> << >>, maxAge |-> 0, path |-> "/",
     httpOnly |-> FALSE, sameSite |-> "", secure |-> FALSE]
\* HonoCookieHandler.getCookie on the request's Cookie header
getCookie(cookies, name) ==
    IF name \in DOMAIN cookies THEN cookies[name] ELSE Undefined
\* cookieOpts of the session stores (no cookie options configured)
SessionCookieOpts(maxAge) ==
    [httpOnly |-> TRUE, sameSite |-> "Lax", path |-> "/", secure |-> TRUE,
     maxAge |-> maxAge]

(***************************************************************************)
(* The browser: it applies the Set-Cookie headers of a response in order   *)
(* and sends the cookies whose Max-Age has not elapsed.                    *)
(***************************************************************************)
NoCookies == [n \in CookieNames |-> Undefined]
ApplyOne(jar, h, nowMs) ==
    IF h.name \notin DOMAIN jar THEN jar
    ELSE IF h.maxAge <= 0
    THEN [jar EXCEPT ![h.name] = Undefined]
    ELSE [jar EXCEPT ![h.name] =
            Some([val |-> h.val, expires |-> nowMs + h.maxAge * MsPerSec])]
RECURSIVE ApplyResponse(_, _, _)
ApplyResponse(jar, resp, nowMs) ==
    IF resp = << >> THEN jar
    ELSE ApplyResponse(ApplyOne(jar, Head(resp), nowMs), Tail(resp), nowMs)
\* the Cookie header of a request sent at nowMs
CookieHeader(jar, nowMs) ==
    [n \in CookieNames |->
        IF IsSome(jar[n]) /\ Get(jar[n]).expires > nowMs
        THEN Some(Get(jar[n]).val) ELSE Undefined]

(***************************************************************************)
(* Stateless session store (StatelessStateStore)                           *)
(***************************************************************************)
\* Math.floor(Date.now() / 1000 + maxAge), in milliseconds
StatelessExpiration(nowMs, maxAge) ==
    ((nowMs + maxAge * MsPerSec) \div MsPerSec) * MsPerSec
\* a chunk count rounded down
ChunkCountFloor(ct) == EncLen(ct) \div ChunkSize
\* Math.ceil(encryptedStateData.length / chunkSize)
ChunkCount(ct) == CeilDiv(EncLen(ct), ChunkSize)
\* the ceiling taken one too low
ExceedsLimitOffByOne(chunkCount) == chunkCount >= ChunkLimit
\* if (chunkCount > 10) throw
ExceedsLimit(chunkCount) == chunkCount > ChunkLimit
\* a chunk that loses its last character
ChunkValueShort(ct, i) == Substring(ct, i * ChunkSize, (i + 1) * ChunkSize - 1)
\* chunks[i].value
ChunkValue(ct, i) == Substring(ct, i * ChunkSize, (i + 1) * ChunkSize)
\* a loop body that deletes the cookie named identifier instead of slot i
SetSlotWrongName(identifier, ct, i, chunkCount, cookieOpts) ==
    IF i < chunkCount
    THEN setCookie(ChunkName(identifier, i), ChunkValue(ct, i), cookieOpts)
    ELSE deleteCookie(identifier)
\* the body of the loop of set, for slot i
SetSlot(identifier, ct, i, chunkCount, cookieOpts) ==
    IF i < chunkCount
    THEN setCookie(ChunkName(identifier, i), ChunkValue(ct, i), cookieOpts)
    ELSE deleteCookie(ChunkName(identifier, i))
\* a set that tests the size only after its loop over the slots, the first
\* ten chunks written
StatelessSetLateCheck(cfg, identifier, stateData, nowMs, iv) ==
    LET maxAge == calculateMaxAge(cfg, stateData.createdAt, nowMs)
        cookieOpts == SessionCookieOpts(maxAge)
        expiration == StatelessExpiration(nowMs, maxAge)
        ct == encrypt(identifier, stateData, expiration, iv)
        chunkCount == ChunkCount(ct)
    IN  [result |-> IF ExceedsLimit(chunkCount)
                    THEN [k |-> "error", e |-> "size"] ELSE [k |-> "void"],
         resp |-> [j \in 1..SetScanWidth |->
                     SetSlot(identifier, ct, j - 1, chunkCount, cookieOpts)],
         enc |-> Some(ct), maxAge |-> maxAge]
\* StatelessStateStore.set: what it returns and the Set-Cookie headers it
\* leaves on the response
StatelessSet(cfg, identifier, stateData, nowMs, iv) ==
    LET maxAge == calculateMaxAge(cfg, stateData.createdAt, nowMs)
        cookieOpts == SessionCookieOpts(maxAge)
        expiration == StatelessExpiration(nowMs, maxAge)
        ct == encrypt(identifier, stateData, expiration, iv)
        chunkCount == ChunkCount(ct)
    IN  IF ExceedsLimit(chunkCount)
        THEN [result |-> [k |-> "error", e |-> "size"], resp |-> << >>,
              enc |-> Some(ct), maxAge |-> maxAge]
        ELSE [result |-> [k |-> "void"],
              resp |-> [j \in 1..SetScanWidth |->
                          SetSlot(identifier, ct, j - 1, chunkCount, cookieOpts)],
              enc |-> Some(ct), maxAge |-> maxAge]
\* a scan that reads the slots from the highest index down
ScanIndexDescending(j) == GetScanWidth - j
\* the j-th index of [...Array(10).keys()]
ScanIndex(j) == j - 1
\* the string get hands to decrypt
Reassemble(identifier, cookies) ==
    Join([j \in 1..GetScanWidth |->
            getCookie(cookies, ChunkName(identifier, ScanIndex(j)))])
\* a get that calls decrypt whether or not it found anything
StatelessGetNoGuard(identifier, cookies, nowMs) ==
    LET encryptedStateData == Reassemble(identifier, cookies)
    IN  [result |-> decrypt(identifier, encryptedStateData, nowMs),
         assembled |-> encryptedStateData, decrypts |-> 1]
\* StatelessStateStore.get
StatelessGet(identifier, cookies, nowMs) ==
    LET encryptedStateData == Reassemble(identifier, cookies)
    IN  IF encryptedStateData # << >>
        THEN [result |-> decrypt(identifier, encryptedStateData, nowMs),
              assembled |-> encryptedStateData, decrypts |-> 1]
        ELSE [result |-> [k |-> "none"],
              assembled |-> encryptedStateData, decrypts |-> 0]
\* a delete that clears the first chunk cookie only
StatelessDeleteFirstOnly(identifier) ==
    << deleteCookie(ChunkName(identifier, 0)) >>
\* StatelessStateStore.delete
StatelessDelete(identifier) ==
    [j \in 1..DeleteScanWidth |-> deleteCookie(ChunkName(identifier, j - 1))]

(***************************************************************************)
(* Stateful session store (StatefulStateStore): pure parts                 *)
(***************************************************************************)
\* a cookie value no decrypt accepts: a ciphertext bound to another name
Forged == StringOf(encrypt("forged", [id |-> 0], 0, 0))
\* a lookup that calls decrypt whether or not there is a cookie
getSessionIdNoGuard(identifier, cookies, nowMs) ==
    LET cookieValue == getCookie(cookies, identifier)
        sessionCookie == decrypt(identifier,
                                 IF IsSome(cookieValue) THEN Get(cookieValue)
                                 ELSE << >>, nowMs)
    IN  IF sessionCookie.k = "ok"
        THEN [k |-> "ok", id |-> sessionCookie.v.id, decrypts |-> 1]
        ELSE [k |-> "error", e |-> sessionCookie.e, decrypts |-> 1]
\* StatefulStateStore.getSessionId: the id in the handle cookie, nothing
\* when there is no handle cookie, or the failure of decrypt
getSessionId(identifier, cookies, nowMs) ==
    LET cookieValue == getCookie(cookies, identifier)
    IN  IF IsSome(cookieValue) /\ Get(cookieValue) # << >>
        THEN LET sessionCookie == decrypt(identifier, Get(cookieValue), nowMs)
             IN  IF sessionCookie.k = "ok"
                 THEN [k |-> "ok", id |-> sessionCookie.v.id, decrypts |-> 1]
                 ELSE [k |-> "error", e |-> sessionCookie.e, decrypts |-> 1]
        ELSE [k |-> "none", decrypts |-> 0]
\* a set that never removes the old session
MustRemoveNever(lookup, removeIfExists) == FALSE
\* set: if (sessionId && removeIfExists)
MustRemove(lookup, removeIfExists) == lookup.k = "ok" /\ removeIfExists
\* a set that keeps the id of the handle after removing its session
ResolveIdKeepsOld(lookup, removed, fresh) ==
    IF lookup.k = "ok" THEN lookup.id ELSE fresh
\* set: sessionId = generateId() after a removal and when there is none
ResolveId(lookup, removed, fresh) ==
    IF removed THEN fresh
    ELSE IF lookup.k = "ok" THEN lookup.id
    ELSE fresh
\* an expiry that leaves out the max-age
StatefulExpirationNoMaxAge(nowMs, maxAge) == nowMs
\* set: Date.now() / 1000 + maxAge, in milliseconds
StatefulExpiration(nowMs, maxAge) == nowMs + maxAge * MsPerSec
\* set: this.#cookieHandler.setCookie(identifier, encryptedStateData, cookieOpts)
HandleCookie(identifier, ct, maxAge) ==
    << setCookie(identifier, StringOf(ct), SessionCookieOpts(maxAge)) >>
\* a get that leaves the dangling handle cookie in place
GetMissKeepsCookie(identifier, stateData) == << >>
\* get: if (!stateData) deleteCookie(identifier): the headers get leaves
GetMiss(identifier, stateData) ==
    IF stateData = Undefined THEN << deleteCookie(identifier) >> ELSE << >>

(***************************************************************************)
(* State                                                                   *)
(***************************************************************************)
VARIABLES
    nowMs,      \* Date.now()
    config,     \* the session configuration the stores were constructed with
    jar,        \* the browser's cookies: name -> <<[val, expires]>> or <<>>
    req,        \* the requests: position, input, what the handler did
    written,    \* the stateless set whose response the browser applied last
    extStore,   \* the external session store: session id -> <<payload>> or <<>>
    idCount,    \* how many ids generateId has returned
    captured,   \* a handle cookie value someone copied from the browser
    retired,    \* the session ids a regenerating set removed and nothing rewrote
    calc        \* one evaluation of the expiration policy: inputs and result

vars == << nowMs, config, jar, req, written, extStore, idCount, captured,
           retired, calc >>
stateful == << extStore, idCount, captured, retired >>

\* a request slot with no request in it
\* no evaluation of the expiration policy on its own
NoCalc == [f |-> "none"]
IdleReq ==
    [pc |-> "idle", store |-> "none", op |-> "none", cookies |-> NoCookies,
     payload |-> Undefined, regen |-> FALSE, at |-> 0, maxAge |-> 0,
     enc |-> Undefined, assembled |-> << >>, decrypts |-> 0,
     resp |-> << >>, result |-> [k |-> "pending"],
     from |-> "browser", lookup |-> [k |-> "pending"], sid |-> Undefined,
     minted |-> Undefined, calls |-> << >>, pend |-> << >>]

Init ==
    /\ nowMs = 0
    /\ config \in Configs
    /\ jar = NoCookies
    /\ req = [r \in Reqs |-> IdleReq]
    /\ written = Undefined
    /\ extStore = [i \in Ids |-> Undefined]
    /\ idCount = 0
    /\ captured = Undefined
    /\ retired = {}
    /\ calc = NoCalc

\* no request is being handled
Quiet == \A r \in Reqs : req[r].pc \in {"idle", "done"}

(***************************************************************************)
(* The clock                                                               *)
(***************************************************************************)
Tick ==
    /\ nowMs < MaxTime * MsPerSec
    /\ nowMs' = nowMs + MsPerSec
    /\ UNCHANGED << config, calc, jar, req, written, stateful >>

(***************************************************************************)
(* Requests to the stateless store.  The browser sends its live cookies;   *)
(* the handler runs between two awaits of nothing but encrypt / decrypt,   *)
(* so it is one step; the browser applies the response in a later step.    *)
(***************************************************************************)
StatelessRequest(r) ==
    /\ Quiet
    /\ \E op \in {"set", "get", "delete"} :
       \E p \in IF op = "set" THEN {Some(d) : d \in Payloads} ELSE {Undefined} :
          req' = [req EXCEPT ![r] =
                    [IdleReq EXCEPT !.pc = "run", !.store = "stateless",
                                    !.op = op,
                                    !.cookies = CookieHeader(jar, nowMs),
                                    !.payload = p]]
    /\ UNCHANGED << nowMs, config, calc, jar, written, stateful >>

StatelessSetStep(r) ==
    /\ req[r].pc = "run" /\ req[r].store = "stateless" /\ req[r].op = "set"
    /\ \E iv \in IVs :
          LET out == StatelessSet(config, Identifier, Get(req[r].payload),
                                  nowMs, iv)
          IN  req' = [req EXCEPT ![r].pc = "respond", ![r].at = nowMs,
                                 ![r].maxAge = out.maxAge,
                                 ![r].enc = out.enc, ![r].resp = out.resp,
                                 ![r].result = out.result]
    /\ UNCHANGED << nowMs, config, calc, jar, written, stateful >>

StatelessGetStep(r) ==
    /\ req[r].pc = "run" /\ req[r].store = "stateless" /\ req[r].op = "get"
    /\ LET out == StatelessGet(Identifier, req[r].cookies, nowMs)
       IN  req' = [req EXCEPT ![r].pc = "respond", ![r].at = nowMs,
                              ![r].assembled = out.assembled,
                              ![r].decrypts = out.decrypts,
                              ![r].result = out.result]
    /\ UNCHANGED << nowMs, config, calc, jar, written, stateful >>

StatelessDeleteStep(r) ==
    /\ req[r].pc = "run" /\ req[r].store = "stateless" /\ req[r].op = "delete"
    /\ req' = [req EXCEPT ![r].pc = "respond", ![r].at = nowMs,
                          ![r].resp = StatelessDelete(Identifier),
                          ![r].result = [k |-> "void"]]
    /\ UNCHANGED << nowMs, config, calc, jar, written, stateful >>

\* the browser receives the response of request r
Respond(r) ==
    /\ req[r].pc = "respond"
    /\ jar' = IF req[r].from = "browser"
              THEN ApplyResponse(jar, req[r].resp, nowMs) ELSE jar
    /\ req' = [req EXCEPT ![r].pc = "done"]
    /\ written' = IF req[r].store = "stateless" /\ req[r].resp # << >>
                  THEN IF req[r].op = "set"
                       THEN Some([ct |-> Get(req[r].enc), resp |-> req[r].resp,
                                  maxAge |-> req[r].maxAge, appliedAt |-> nowMs])
                       ELSE Undefined
                  ELSE written
    /\ UNCHANGED << nowMs, config, calc, stateful >>

NextStateless ==
    \/ Tick
    \/ StatelessRequest(1)
    \/ StatelessSetStep(1)
    \/ StatelessGetStep(1)
    \/ StatelessDeleteStep(1)
    \/ Respond(1)

SpecStateless == Init /\ [][NextStateless]_vars

(***************************************************************************)
(* Requests to the stateful store.  Every call of the external store is    *)
(* issued in one step and settles (succeeds or fails) in a later step of   *)
(* the store; the handler resumes after the call it awaits has settled.    *)
(***************************************************************************)
\* the handle cookie value the browser would send
BrowserHandle == CookieHeader(jar, nowMs)[Identifier]
\* someone copies, once, the handle cookie the browser holds
Capture ==
    /\ Quiet
    /\ IsSome(BrowserHandle)
    /\ captured = Undefined
    /\ captured' = BrowserHandle
    /\ UNCHANGED << nowMs, config, calc, jar, req, written, extStore, idCount, retired >>

\* sets in flight that may still call generateId
SetsInFlight ==
    Cardinality({q \in Reqs : req[q].store = "stateful" /\ req[q].op = "set"
                              /\ req[q].pc \in {"run", "awaitDelete"}})

\* a request reaches the stateful store, from the browser or from someone
\* who presents the captured handle cookie or a forged one
StatefulRequest(r) ==
    /\ Quiet
    /\ \E op \in {"set", "get", "delete"} :
       \E p \in IF op = "set" THEN {Some(d) : d \in StatefulPayloads}
                ELSE {Undefined} :
       \E regen \in IF op = "set" THEN BOOLEAN ELSE {FALSE} :
       \E from \in {"browser", "replay", "forged"} :
          /\ op = "set" => idCount + SetsInFlight < MaxIds
          /\ from = "replay" => IsSome(captured)
          /\ req' = [req EXCEPT ![r] =
                [IdleReq EXCEPT
                   !.pc = "run", !.store = "stateful", !.op = op,
                   !.payload = p, !.regen = regen, !.from = from,
                   !.cookies =
                      IF from = "browser" THEN CookieHeader(jar, nowMs)
                      ELSE [NoCookies EXCEPT ![Identifier] =
                              IF from = "replay" THEN captured
                              ELSE Some(Forged)]]]
    /\ UNCHANGED << nowMs, config, calc, jar, written, stateful >>

\* request r calls method m of the external store
Issue(q, m, id, payload) ==
    [q EXCEPT !.calls = Append(@, [m |-> m, id |-> id, ev |-> "issued",
                                    ret |-> Undefined]),
              !.pend = Append(@, [m |-> m, id |-> id, payload |-> payload])]
\* the call of method m that request r awaits has settled
Settled(r, m) == \A i \in 1..Len(req[r].pend) : req[r].pend[i].m # m
\* how the last call of method m of request r ended
RECURSIVE LastOutcome(_, _)
LastOutcome(calls, m) ==
    IF calls = << >> THEN [m |-> m, id |-> 0, ev |-> "never", ret |-> Undefined]
    ELSE LET e == calls[Len(calls)]
         IN  IF e.m = m /\ e.ev # "issued" THEN e
             ELSE LastOutcome(SubSeq(calls, 1, Len(calls) - 1), m)
\* the request fails with error e, leaving no header on the response
Fail(q, e) == [q EXCEPT !.pc = "respond", !.result = [k |-> "error", e |-> e]]

\* the external store settles one pending call of request r
StoreComplete(r) ==
    /\ req[r].pend # << >>
    /\ \E i \in 1..Len(req[r].pend) :
       \E ok \in BOOLEAN :
          LET c == req[r].pend[i]
              e == [m |-> c.m, id |-> c.id,
                    ev |-> IF ok THEN "done" ELSE "failed",
                    ret |-> IF ok /\ c.m = "get" THEN extStore[c.id]
                            ELSE Undefined]
          IN  /\ c.m \in {"set", "get", "delete"}
              /\ req' = [req EXCEPT
                           ![r].calls = Append(@, e),
                           ![r].pend = SubSeq(@, 1, i - 1)
                                         \o SubSeq(@, i + 1, Len(@))]
              /\ extStore' =
                    IF ok /\ c.m = "set"
                    THEN [extStore EXCEPT ![c.id] = c.payload]
                    ELSE IF ok /\ c.m = "delete"
                    THEN [extStore EXCEPT ![c.id] = Undefined]
                    ELSE extStore
              /\ retired' = IF ok /\ c.m = "set" THEN retired \ {c.id}
                            ELSE retired
    /\ UNCHANGED << nowMs, config, calc, jar, written, idCount, captured >>

\* set, from the id resolution to the call of store.set (lines 52-78)
Mint(r, q, removed) ==
    \E iv \in HandleIVs :
       LET needFresh == removed \/ q.lookup.k # "ok"
           fresh == idCount + 1
           sessionId == ResolveId(q.lookup, removed, fresh)
           stateData == Get(q.payload)
           maxAge == calculateMaxAge(config, stateData.createdAt, nowMs)
           expiration == StatefulExpiration(nowMs, maxAge)
           ct == encrypt(Identifier, [id |-> sessionId], expiration, iv)
       IN  /\ req' = [req EXCEPT ![r] =
                 Issue([q EXCEPT !.pc = "awaitSet", !.sid = Some(sessionId),
                                 !.minted = IF needFresh THEN Some(fresh)
                                            ELSE Undefined,
                                 !.at = nowMs, !.maxAge = maxAge,
                                 !.enc = Some(ct)],
                       "set", sessionId, q.payload)]
           /\ idCount' = IF needFresh THEN fresh ELSE idCount

\* a set that does not wait for store.delete before it goes on
SfSetStartNoAwait(r) ==
    /\ req[r].pc = "run" /\ req[r].store = "stateful" /\ req[r].op = "set"
    /\ LET lookup == getSessionId(Identifier, req[r].cookies, nowMs)
           q == [req[r] EXCEPT !.lookup = lookup, !.decrypts = lookup.decrypts]
       IN  IF lookup.k = "error"
           THEN req' = [req EXCEPT ![r] = Fail(q, lookup.e)] /\ UNCHANGED idCount
           ELSE IF MustRemove(lookup, req[r].regen)
           THEN Mint(r, Issue(q, "delete", lookup.id, Undefined), TRUE)
           ELSE Mint(r, q, FALSE)
    /\ UNCHANGED << nowMs, config, calc, jar, written, extStore, captured, retired >>

\* StatefulStateStore.set up to its first call of the external store
SfSetStart(r) ==
    /\ req[r].pc = "run" /\ req[r].store = "stateful" /\ req[r].op = "set"
    /\ LET lookup == getSessionId(Identifier, req[r].cookies, nowMs)
           q == [req[r] EXCEPT !.lookup = lookup, !.decrypts = lookup.decrypts]
       IN  IF lookup.k = "error"
           THEN req' = [req EXCEPT ![r] = Fail(q, lookup.e)] /\ UNCHANGED idCount
           ELSE IF MustRemove(lookup, req[r].regen)
           THEN /\ req' = [req EXCEPT ![r] =
                     Issue([q EXCEPT !.pc = "awaitDelete"], "delete",
                           lookup.id, Undefined)]
                /\ UNCHANGED idCount
           ELSE Mint(r, q, FALSE)
    /\ UNCHANGED << nowMs, config, calc, jar, written, extStore, captured, retired >>

\* a set that goes on to store.set although store.delete failed
SfSetAfterDeleteGoesOn(r) ==
    /\ req[r].pc = "awaitDelete" /\ req[r].op = "set"
    /\ Settled(r, "delete")
    /\ Mint(r, req[r], TRUE)
    /\ UNCHANGED << nowMs, config, calc, jar, written, extStore, captured, retired >>

\* set after `await this.#store.delete(sessionId)`
SfSetAfterDelete(r) ==
    /\ req[r].pc = "awaitDelete" /\ req[r].op = "set"
    /\ Settled(r, "delete")
    /\ IF LastOutcome(req[r].calls, "delete").ev = "failed"
       THEN req' = [req EXCEPT ![r] = Fail(req[r], "store")] /\ UNCHANGED idCount
       ELSE Mint(r, req[r], TRUE)
    /\ UNCHANGED << nowMs, config, calc, jar, written, extStore, captured, retired >>

\* set after `await this.#store.set(sessionId, stateData)`
SfSetFinish(r) ==
    /\ req[r].pc = "awaitSet" /\ req[r].op = "set"
    /\ Settled(r, "set")
    /\ LET removedIds == {req[r].calls[i].id : i \in
                            {j \in 1..Len(req[r].calls) :
                               /\ req[r].calls[j].m = "delete"
                               /\ req[r].calls[j].ev = "done"}}
       IN  IF LastOutcome(req[r].calls, "set").ev = "failed"
           THEN /\ req' = [req EXCEPT ![r] = Fail(req[r], "store")]
                /\ UNCHANGED retired
           ELSE /\ req' = [req EXCEPT
                     ![r].pc = "respond",
                     ![r].resp = HandleCookie(Identifier, Get(req[r].enc),
                                              req[r].maxAge),
                     ![r].result = [k |-> "void"]]
                /\ retired' = retired \cup (removedIds \ {Get(req[r].sid)})
    /\ UNCHANGED << nowMs, config, calc, jar, written, extStore, idCount, captured >>

\* a get of the stateful store that answers a failure of decrypt by
\* deleting the handle cookie and returning no session
SfGetStartForgiving(r) ==
    /\ req[r].pc = "run" /\ req[r].store = "stateful" /\ req[r].op = "get"
    /\ LET lookup == getSessionId(Identifier, req[r].cookies, nowMs)
           q == [req[r] EXCEPT !.lookup = lookup, !.decrypts = lookup.decrypts,
                               !.at = nowMs]
       IN  req' = [req EXCEPT ![r] =
                IF lookup.k = "ok"
                THEN Issue([q EXCEPT !.pc = "awaitGet", !.sid = Some(lookup.id)],
                           "get", lookup.id, Undefined)
                ELSE [q EXCEPT !.pc = "respond", !.result = [k |-> "none"],
                               !.resp = << deleteCookie(Identifier) >>]]
    /\ UNCHANGED << nowMs, config, calc, jar, written, stateful >>

\* StatefulStateStore.get up to `await this.#store.get(sessionId)`
SfGetStart(r) ==
    /\ req[r].pc = "run" /\ req[r].store = "stateful" /\ req[r].op = "get"
    /\ LET lookup == getSessionId(Identifier, req[r].cookies, nowMs)
           q == [req[r] EXCEPT !.lookup = lookup, !.decrypts = lookup.decrypts,
                               !.at = nowMs]
       IN  req' = [req EXCEPT ![r] =
                IF lookup.k = "error" THEN Fail(q, lookup.e)
                ELSE IF lookup.k = "ok"
                THEN Issue([q EXCEPT !.pc = "awaitGet", !.sid = Some(lookup.id)],
                           "get", lookup.id, Undefined)
                ELSE [q EXCEPT !.pc = "respond", !.result = [k |-> "none"]]]
    /\ UNCHANGED << nowMs, config, calc, jar, written, stateful >>

\* get after `await this.#store.get(sessionId)`
SfGetFinish(r) ==
    /\ req[r].pc = "awaitGet" /\ req[r].op = "get"
    /\ Settled(r, "get")
    /\ LET out == LastOutcome(req[r].calls, "get")
           stateData == out.ret
       IN  req' = [req EXCEPT ![r] =
                IF out.ev = "failed" THEN Fail(@, "store")
                ELSE [@ EXCEPT !.pc = "respond",
                               !.resp = GetMiss(Identifier, stateData),
                               !.result = IF IsSome(stateData)
                                          THEN [k |-> "ok", v |-> Get(stateData)]
                                          ELSE [k |-> "none"]]]
    /\ UNCHANGED << nowMs, config, calc, jar, written, stateful >>

\* StatefulStateStore.delete up to `await this.#store.delete(sessionId)`
SfDeleteStart(r) ==
    /\ req[r].pc = "run" /\ req[r].store = "stateful" /\ req[r].op = "delete"
    /\ LET lookup == getSessionId(Identifier, req[r].cookies, nowMs)
           q == [req[r] EXCEPT !.lookup = lookup, !.decrypts = lookup.decrypts,
                               !.at = nowMs]
       IN  req' = [req EXCEPT ![r] =
                IF lookup.k = "error" THEN Fail(q, lookup.e)
                ELSE IF lookup.k = "ok"
                THEN Issue([q EXCEPT !.pc = "awaitDelete",
                                     !.sid = Some(lookup.id)],
                           "delete", lookup.id, Undefined)
                ELSE [q EXCEPT !.pc = "respond",
                               !.resp = << deleteCookie(Identifier) >>,
                               !.result = [k |-> "void"]]]
    /\ UNCHANGED << nowMs, config, calc, jar, written, stateful >>

\* delete after `await this.#store.delete(sessionId)`
SfDeleteFinish(r) ==
    /\ req[r].pc = "awaitDelete" /\ req[r].op = "delete"
    /\ Settled(r, "delete")
    /\ req' = [req EXCEPT ![r] =
            IF LastOutcome(req[r].calls, "delete").ev = "failed"
            THEN Fail(@, "store")
            ELSE [@ EXCEPT !.pc = "respond",
                           !.resp = << deleteCookie(Identifier) >>,
                           !.result = [k |-> "void"]]]
    /\ UNCHANGED << nowMs, config, calc, jar, written, stateful >>

NextStateful ==
    \/ Tick
    \/ Capture
    \/ StatefulRequest(1)
    \/ SfSetStart(1)
    \/ SfSetAfterDelete(1)
    \/ SfSetFinish(1)
    \/ SfGetStart(1)
    \/ SfGetFinish(1)
    \/ SfDeleteStart(1)
    \/ SfDeleteFinish(1)
    \/ StoreComplete(1)
    \/ Respond(1)

SpecStateful == Init /\ [][NextStateful]_vars

(***************************************************************************)
(* Backchannel logout: deleteByLogoutToken of the two session stores.  The *)
(* request comes from the identity provider (no cookie) or carries the     *)
(* cookies of a browser.                                                   *)
(***************************************************************************)
\* the claims of a logout token
LogoutClaims == [sub : {"alice", "bob"}, sid : {"sid-1"}]
\* a backchannel logout reaches deleteByLogoutToken of the given store
BackchannelRequest(r, store) ==
    /\ Quiet
    /\ \E claims \in LogoutClaims :
       \E from \in {"browser", "server"} :
          req' = [req EXCEPT ![r] =
                [IdleReq EXCEPT
                   !.pc = "run", !.store = store, !.op = "logout",
                   !.payload = Some(claims), !.from = from,
                   !.cookies = IF from = "browser"
                               THEN CookieHeader(jar, nowMs)
                               ELSE NoCookies]]
    /\ UNCHANGED << nowMs, config, calc, jar, written, stateful >>

\* a deleteByLogoutToken that passes the claims on twice
StatefulDeleteByLogoutTokenTwice(q, claims) ==
    Issue(Issue([q EXCEPT !.pc = "awaitLogout"],
                "deleteByLogoutToken", claims, Undefined),
          "deleteByLogoutToken", claims, Undefined)
\* StatefulStateStore.deleteByLogoutToken:
\* return this.#store.deleteByLogoutToken(claims)
StatefulDeleteByLogoutToken(q, claims) ==
    Issue([q EXCEPT !.pc = "awaitLogout"],
          "deleteByLogoutToken", claims, Undefined)
SfLogoutStart(r) ==
    /\ req[r].pc = "run" /\ req[r].store = "stateful" /\ req[r].op = "logout"
    /\ req' = [req EXCEPT ![r] =
            StatefulDeleteByLogoutToken([req[r] EXCEPT !.at = nowMs],
                                        Get(req[r].payload))]
    /\ UNCHANGED << nowMs, config, calc, jar, written, stateful >>
\* the external store settles deleteByLogoutToken: it removes the sessions
\* it finds for the claims (which these are is its own affair), or fails
StoreLogoutComplete(r) ==
    /\ \E i \in 1..Len(req[r].pend) :
       \E ok \in BOOLEAN :
       \E found \in SUBSET {id \in Ids : IsSome(extStore[id])} :
          LET c == req[r].pend[i]
          IN  /\ c.m = "deleteByLogoutToken"
              /\ ~ok => found = {}
              /\ req' = [req EXCEPT
                           ![r].calls = Append(@,
                               [m |-> c.m, id |-> c.id,
                                ev |-> IF ok THEN "done" ELSE "failed",
                                ret |-> Undefined]),
                           ![r].pend = SubSeq(@, 1, i - 1)
                                         \o SubSeq(@, i + 1, Len(@))]
              /\ extStore' = [id \in Ids |->
                                IF id \in found THEN Undefined
                                ELSE extStore[id]]
    /\ UNCHANGED << nowMs, config, calc, jar, written, idCount, captured, retired >>
\* the promise deleteByLogoutToken returned has settled
SfLogoutFinish(r) ==
    /\ req[r].pc = "awaitLogout" /\ req[r].op = "logout"
    /\ Settled(r, "deleteByLogoutToken")
    /\ req' = [req EXCEPT ![r] =
            IF LastOutcome(req[r].calls, "deleteByLogoutToken").ev = "failed"
            THEN Fail(@, "store")
            ELSE [@ EXCEPT !.pc = "respond", !.result = [k |-> "void"]]]
    /\ UNCHANGED << nowMs, config, calc, jar, written, stateful >>

\* the stateful store with backchannel logout; the clock stands still
NextStatefulLogout ==
    \/ StatefulRequest(1)
    \/ SfSetStart(1)
    \/ SfSetAfterDelete(1)
    \/ SfSetFinish(1)
    \/ SfGetStart(1)
    \/ SfGetFinish(1)
    \/ SfDeleteStart(1)
    \/ SfDeleteFinish(1)
    \/ StoreComplete(1)
    \/ BackchannelRequest(1, "stateful")
    \/ SfLogoutStart(1)
    \/ StoreLogoutComplete(1)
    \/ SfLogoutFinish(1)
    \/ Respond(1)

SpecStatefulLogout == Init /\ [][NextStatefulLogout]_vars

\* a deleteByLogoutToken that deletes the session cookies and succeeds
StatelessDeleteByLogoutTokenAsDelete(identifier, claims) ==
    [result |-> [k |-> "void"], resp |-> StatelessDelete(identifier)]
\* StatelessStateStore.deleteByLogoutToken: throw new BackchannelLogoutError
StatelessDeleteByLogoutToken(identifier, claims) ==
    [result |-> [k |-> "error", e |-> "BackchannelLogoutError"],
     resp |-> << >>]
StatelessLogoutStep(r) ==
    /\ req[r].pc = "run" /\ req[r].store = "stateless" /\ req[r].op = "logout"
    /\ LET out == StatelessDeleteByLogoutToken(Identifier, Get(req[r].payload))
       IN  req' = [req EXCEPT ![r].pc = "respond", ![r].at = nowMs,
                              ![r].resp = out.resp, ![r].result = out.result]
    /\ UNCHANGED << nowMs, config, calc, jar, written, stateful >>

\* the stateless store with backchannel logout
NextStatelessLogout ==
    \/ Tick
    \/ StatelessRequest(1)
    \/ StatelessSetStep(1)
    \/ StatelessGetStep(1)
    \/ StatelessDeleteStep(1)
    \/ BackchannelRequest(1, "stateless")
    \/ StatelessLogoutStep(1)
    \/ Respond(1)

SpecStatelessLogout == Init /\ [][NextStatelessLogout]_vars

(***************************************************************************)
(* The expiration policy on its own: calculateMaxAge applied to a session  *)
(* configuration, a createdAt and a reading of the clock.                  *)
(***************************************************************************)
\* options.absoluteDuration ?? 60 * 60 * 24 * 3
DefaultAbsoluteDuration == 60 * 60 * 24 * 3
\* options.inactivityDuration ?? 60 * 60 * 24 * 1
DefaultInactivityDuration == 60 * 60 * 24 * 1
\* createdAt of the sessions of the tests, epoch seconds
ScenarioCreatedAt == 1600000000
\* configurations: small durations, among them an inactivity window longer
\* than the absolute duration, and the defaults
PolicyConfigs ==
    [rolling : BOOLEAN,
     absoluteDuration : {1, 2, 5, DefaultAbsoluteDuration},
     inactivityDuration : {1, 3, 7, DefaultInactivityDuration}]
PolicyCreatedAts == {10, ScenarioCreatedAt}
\* the clock, in seconds after createdAt (before it as well)
PolicyElapsed ==
    {-2, 0, 1, 2, 3, 4, 5, 6, 8,
     DefaultInactivityDuration - 1, DefaultInactivityDuration, 90000,
     DefaultAbsoluteDuration - 1, DefaultAbsoluteDuration,
     DefaultAbsoluteDuration + 1}
\* the milliseconds part of Date.now()
PolicyMillis == {0, 999}

InitPolicy ==
    /\ nowMs = 0
    /\ config \in PolicyConfigs
    /\ jar = NoCookies
    /\ req = [r \in Reqs |-> IdleReq]
    /\ written = Undefined
    /\ extStore = [i \in Ids |-> Undefined]
    /\ idCount = 0
    /\ captured = Undefined
    /\ retired = {}
    /\ calc \in [f : {"input"}, createdAt : PolicyCreatedAts,
                 elapsed : PolicyElapsed, ms : PolicyMillis,
                 out : {Undefined}]
\* the epoch second the clock reads in an evaluation
ClockOf(c) == EpochSecondsOf(c.createdAt + c.elapsed, c.ms)
\* this.calculateMaxAge(createdAt)
ApplyMaxAge ==
    /\ calc.f = "input"
    /\ calc' = [calc EXCEPT
                  !.f = "calculateMaxAge",
                  !.out = Some(maxAgeAt(config, calc.createdAt, ClockOf(calc)))]
    /\ UNCHANGED << nowMs, config, jar, req, written, stateful >>
\* the same session is looked at again, one second later
PolicyLater ==
    /\ calc.f = "calculateMaxAge"
    /\ calc.elapsed + 1 \in PolicyElapsed
    /\ calc' = [calc EXCEPT !.f = "input", !.elapsed = @ + 1,
                            !.out = Undefined]
    /\ UNCHANGED << nowMs, config, jar, req, written, stateful >>

NextPolicy ==
    \/ ApplyMaxAge
    \/ PolicyLater

SpecPolicy == InitPolicy /\ [][NextPolicy]_vars

(***************************************************************************)
(* Stateless store: properties                                             *)
(***************************************************************************)
\* request r is a finished call of op on the named store
Finished(r, store, op) ==
    /\ req[r].pc \in {"respond", "done"}
    /\ req[r].store = store
    /\ req[r].op = op
\* the cookies a response writes (its Set-Cookie headers with a value)
RECURSIVE CookiesWritten(_)
CookiesWritten(resp) ==
    IF resp = << >> THEN NoCookies
    ELSE LET rest == CookiesWritten(Tail(resp))
             h == Head(resp)
         IN  IF h.val # << >> /\ rest[h.name] = Undefined
             THEN [rest EXCEPT ![h.name] = Some(h.val)]
             ELSE rest
\* characters lo..hi-1 of the encrypted string, as a cookie value
Chars(ct, lo, hi) == << [ct |-> ct, lo |-> lo, hi |-> hi] >>
\* the number of chunks of ChunkSize characters the encrypted string needs
Needs(ct) == (EncLen(ct) + ChunkSize - 1) \div ChunkSize

\* request r is a get on exactly the cookies the preceding set wrote
RoundTripCase(r) ==
    /\ Finished(r, "stateless", "get")
    /\ IsSome(written)
    /\ req[r].cookies = CookiesWritten(Get(written).resp)

\* C1: a stateless get on a request that carries exactly the cookies written
\* by the preceding set hands decrypt the exact encrypted string of that set
\* and returns the payload that was set (decrypt refusing only an envelope
\* whose expiry has passed).
C1_RoundTrip ==
    \A r \in Reqs :
        RoundTripCase(r) =>
            LET ct == Get(written).ct
            IN  /\ req[r].assembled = Chars(ct, 0, EncLen(ct))
                /\ req[r].decrypts = 1
                /\ req[r].result =
                      IF EnvelopeExpired(ct, req[r].at)
                      THEN [k |-> "error", e |-> "decrypt"]
                      ELSE [k |-> "ok", v |-> ct.body]
\* a round trip of a payload of 10 chunks came back
C1_Witness ==
    \E r \in Reqs :
        /\ RoundTripCase(r)
        /\ Needs(Get(written).ct) = ChunkLimit
        /\ req[r].result = [k |-> "ok", v |-> Get(written).ct.body]

C3_NoOrphanChunks ==
    IsSome(written) =>
        LET w == Get(written)
            live == CookieHeader(jar, nowMs)
            alive == nowMs < w.appliedAt + w.maxAge * MsPerSec
        IN  /\ \A i \in 0..ChunkLimit :
                  live[ChunkName(Identifier, i)] =
                    IF i < Needs(w.ct) /\ alive
                    THEN Some(Chars(w.ct, i * ChunkSize,
                                    Min((i + 1) * ChunkSize, EncLen(w.ct))))
                    ELSE Undefined
            /\ \A r \in Reqs :
                  Finished(r, "stateless", "get") =>
                    /\ req[r].assembled \in {<< >>, Chars(w.ct, 0, EncLen(w.ct))}
                    /\ req[r].result.k = "ok" => req[r].result.v = w.ct.body
\* a set of one chunk, on a request that carried 10 chunks, has been applied
\* and its one chunk is what the browser holds
C3_Witness ==
    \E r \in Reqs :
        /\ Finished(r, "stateless", "set")
        /\ req[r].pc = "done"
        /\ \A i \in 0..(ChunkLimit - 1) :
              IsSome(req[r].cookies[ChunkName(Identifier, i)])
        /\ IsSome(written)
        /\ Get(written).ct = Get(req[r].enc)
        /\ Needs(Get(written).ct) = 1
        /\ IsSome(CookieHeader(jar, nowMs)[ChunkName(Identifier, 0)])

(***************************************************************************)
(* Stateful store: properties                                              *)
(***************************************************************************)
\* the positions in the calls of request r of the events ev of method m
Events(r, m, ev) ==
    {i \in 1..Len(req[r].calls) :
        req[r].calls[i].m = m /\ req[r].calls[i].ev \in ev}
AnyEv == {"issued", "done", "failed"}
\* request r is a set that regenerates on a handle cookie that carries an id
RegenCase(r) ==
    /\ req[r].store = "stateful" /\ req[r].op = "set"
    /\ req[r].regen
    /\ req[r].lookup.k = "ok"

\* C4: in a stateful set with regenerate = true on a request whose handle
\* cookie carries session id X, every call of the external store's set is
\* issued after delete(X) was issued and after delete(X) has completed,
\* within the same call of set.
C4_DeleteBeforeSet ==
    \A r \in Reqs :
        RegenCase(r) =>
            \A i \in Events(r, "set", AnyEv) :
                /\ \E j \in Events(r, "delete", {"issued"}) :
                      j < i /\ req[r].calls[j].id = req[r].lookup.id
                /\ \E j \in Events(r, "delete", {"done"}) :
                      j < i /\ req[r].calls[j].id = req[r].lookup.id
\* a regenerating set on a handle went through delete and set and succeeded
C4_Witness ==
    \E r \in Reqs :
        /\ RegenCase(r)
        /\ Finished(r, "stateful", "set")
        /\ req[r].result = [k |-> "void"]
        /\ Len(req[r].calls) = 4
        /\ req[r].calls[1].m = "delete" /\ req[r].calls[4].m = "set"

\* the session id in the handle cookie a successful set wrote
HandleId(r) == req[r].resp[1].val[1].ct.body.id

\* C5: once a stateful set with regenerate = true has completed on a request
\* whose handle cookie carried session id X, the external store holds no
\* payload under X and the handle cookie the set wrote carries an id other
\* than X; a get that presents a handle cookie for an id so removed returns
\* no session.
C5_FixationDefence ==
    \A r \in Reqs :
        /\ (RegenCase(r) /\ Finished(r, "stateful", "set")
                /\ req[r].result = [k |-> "void"]) =>
              /\ extStore[req[r].lookup.id] = Undefined
              /\ Get(req[r].sid) # req[r].lookup.id
              /\ HandleId(r) # req[r].lookup.id
              /\ req[r].lookup.id \in retired
        /\ (Finished(r, "stateful", "get") /\ req[r].lookup.k = "ok"
                /\ req[r].lookup.id \in retired) =>
              req[r].result \in {[k |-> "none"],
                                 [k |-> "error", e |-> "store"]}
\* after the browser's set regenerated the session, a get presenting the
\* handle cookie captured before it reached the store and found no session,
\* while the browser's new handle has its session in the store
C5_Witness ==
    \E r \in Reqs :
        /\ Finished(r, "stateful", "get")
        /\ req[r].from = "replay"
        /\ req[r].lookup.k = "ok"
        /\ req[r].lookup.id \in retired
        /\ req[r].result = [k |-> "none"]
        /\ Len(req[r].calls) = 2 /\ req[r].calls[2].ev = "done"
        /\ IsSome(BrowserHandle)
        /\ \E i \in Ids : /\ i # req[r].lookup.id
                          /\ IsSome(extStore[i])
                          /\ Get(BrowserHandle)[1].ct.body.id = i

\* C6: a stateful set on a request whose handle cookie is absent or carries
\* an id calls the external store's delete if and only if a handle is present
\* and regenerate is true, and then with the id of the handle; it writes the
\* payload under the id of the handle if and only if a handle is present and
\* regenerate is false, and under an id that generateId returned during the
\* call in every other case.  (A set whose handle cookie does not decrypt
\* fails with the error of decrypt before any call of the external store.)
C6_IdResolution ==
    \A r \in Reqs :
        Finished(r, "stateful", "set") =>
            LET q == req[r]
                present == IsSome(q.cookies[Identifier])
                reuse == present /\ ~q.regen
            IN  IF q.lookup.k = "error"
                THEN /\ present
                     /\ q.calls = << >>
                     /\ q.result = [k |-> "error", e |-> "decrypt"]
                ELSE /\ present <=> q.lookup.k = "ok"
                     /\ Events(r, "delete", AnyEv) # {} <=> (present /\ q.regen)
                     /\ \A i \in Events(r, "delete", AnyEv) :
                           q.calls[i].id = q.lookup.id
                     /\ reuse => q.minted = Undefined
                     /\ (present /\ IsSome(q.minted)) =>
                           Get(q.minted) # q.lookup.id
                     /\ \A i \in Events(r, "set", AnyEv) :
                           /\ reuse => q.calls[i].id = q.lookup.id
                           /\ ~reuse => /\ IsSome(q.minted)
                                         /\ q.calls[i].id = Get(q.minted)
                           /\ q.calls[i].ev = "done" =>
                                 extStore[q.calls[i].id] = q.payload
\* a set without regenerate, on a request whose handle carries an id, has
\* written its payload under that id, after time has passed, without a call
\* of generateId or of the store's delete
C6_Witness ==
    \E r \in Reqs :
        /\ Finished(r, "stateful", "set")
        /\ req[r].result = [k |-> "void"]
        /\ req[r].lookup.k = "ok"
        /\ ~req[r].regen
        /\ req[r].at > 0
        /\ req[r].minted = Undefined
        /\ Len(req[r].calls) = 2
        /\ req[r].calls[2] = [m |-> "set", id |-> req[r].lookup.id,
                              ev |-> "done", ret |-> Undefined]
        /\ extStore[req[r].lookup.id] = req[r].payload

\* the max-age a session created at createdAt has left at atMs
ExpectedMaxAge(createdAt, atMs) ==
    IF config.rolling
    THEN Max(0, Min(config.inactivityDuration,
                    createdAt + config.absoluteDuration - atMs \div MsPerSec))
    ELSE config.absoluteDuration

\* C7: every successful stateful set writes exactly one cookie, named the
\* identifier; its value is the encryption of {id} under the identifier, id
\* being the key of the one call of the external store's set in that call;
\* its max-age is calculateMaxAge of the payload's createdAt and the expiry
\* in the envelope is the time of the call plus that max-age.
C7_HandleCookie ==
    \A r \in Reqs :
        (Finished(r, "stateful", "set") /\ req[r].result = [k |-> "void"]) =>
            LET q == req[r]
                h == q.resp[1]
                maxAge == ExpectedMaxAge(Get(q.payload).createdAt, q.at)
            IN  /\ Len(q.resp) = 1
                /\ h.name = Identifier
                /\ h.maxAge = maxAge
                /\ h.maxAge = calculateMaxAge(config, Get(q.payload).createdAt,
                                              q.at)
                /\ Len(h.val) = 1
                /\ h.val = StringOf(h.val[1].ct)
                /\ h.val[1].ct.ident = Identifier
                /\ h.val[1].ct.exp = q.at + maxAge * MsPerSec
                /\ Cardinality(Events(r, "set", {"issued"})) = 1
                /\ \A i \in Events(r, "set", AnyEv) :
                      /\ h.val[1].ct.body = [id |-> q.calls[i].id]
                      /\ q.calls[i].ev = "done" =>
                            extStore[q.calls[i].id] = q.payload
\* a set one second after the session was created wrote a handle cookie
\* with a max-age above zero, under a rolling configuration
C7_Witness ==
    \E r \in Reqs :
        /\ Finished(r, "stateful", "set")
        /\ req[r].result = [k |-> "void"]
        /\ config.rolling
        /\ req[r].at = MsPerSec
        /\ Len(req[r].resp) = 1
        /\ req[r].resp[1].maxAge > 0
        /\ req[r].resp[1].val[1].ct.exp = req[r].at + MsPerSec

\* request r is a get whose handle cookie carried an id the external store
\* holds nothing under
DanglingCase(r) ==
    /\ Finished(r, "stateful", "get")
    /\ req[r].lookup.k = "ok"
    /\ Events(r, "get", {"done"}) # {}
    /\ \A i \in Events(r, "get", {"done"}) : req[r].calls[i].ret = Undefined

\* the cookies the sender of request r holds once it has applied the
\* response to the cookies it sent
ResultingCookies(r) ==
    LET sent == [n \in CookieNames |->
                    IF IsSome(req[r].cookies[n])
                    THEN Some([val |-> Get(req[r].cookies[n]),
                               expires |-> nowMs + MsPerSec])
                    ELSE Undefined]
    IN  CookieHeader(ApplyResponse(sent, req[r].resp, nowMs), nowMs)

\* C8: a stateful get whose handle cookie decrypts to a session id the
\* external store returns nothing for deletes the handle cookie and returns
\* no session; the cookies that result carry no handle cookie, and a get on
\* a request without a handle cookie makes no call of the external store.
C8_DanglingHandle ==
    \A r \in Reqs :
        /\ DanglingCase(r) =>
              /\ req[r].resp = << deleteCookie(Identifier) >>
              /\ req[r].result = [k |-> "none"]
              /\ ResultingCookies(r)[Identifier] = Undefined
              /\ (req[r].pc = "done" /\ req[r].from = "browser") =>
                    BrowserHandle = Undefined
        /\ (req[r].store = "stateful" /\ req[r].op = "get"
                /\ req[r].cookies[Identifier] = Undefined) =>
              /\ req[r].calls = << >>
              /\ req[r].pend = << >>
\* the browser's get found its handle dangling, and the browser holds no
\* handle cookie after the response
C8_Witness ==
    \E r \in Reqs :
        /\ DanglingCase(r)
        /\ req[r].pc = "done"
        /\ req[r].from = "browser"
        /\ IsSome(req[r].cookies[Identifier])
        /\ BrowserHandle = Undefined
        /\ jar[Identifier] = Undefined

\* C9: a stateful get returns a payload only when the request carries a
\* handle cookie, the handle decrypts to an id and the external store holds
\* a payload under that id, and then returns exactly that payload; on a
\* request without a handle cookie it returns no session and calls neither
\* decrypt nor the external store.
C9_GetReturns ==
    \A r \in Reqs :
        Finished(r, "stateful", "get") =>
            LET q == req[r]
                handle == q.cookies[Identifier]
            IN  /\ q.result.k = "ok" =>
                      /\ IsSome(handle)
                      /\ q.decrypts = 1
                      /\ decrypt(Identifier, Get(handle), q.at).k = "ok"
                      /\ q.lookup.k = "ok"
                      /\ q.lookup.id = decrypt(Identifier, Get(handle), q.at).v.id
                      /\ extStore[q.lookup.id] = Some(q.result.v)
                      /\ q.calls =
                            << [m |-> "get", id |-> q.lookup.id,
                                ev |-> "issued", ret |-> Undefined],
                               [m |-> "get", id |-> q.lookup.id,
                                ev |-> "done", ret |-> Some(q.result.v)] >>
                      /\ q.resp = << >>
                /\ handle = Undefined =>
                      /\ q.result = [k |-> "none"]
                      /\ q.decrypts = 0
                      /\ q.calls = << >>
                      /\ q.resp = << >>
\* a get returned the payload stored under the id of its handle while the
\* store holds another payload under another id
C9_Witness ==
    \E r \in Reqs :
        /\ Finished(r, "stateful", "get")
        /\ req[r].result.k = "ok"
        /\ \E i \in Ids : /\ i # req[r].lookup.id
                          /\ IsSome(extStore[i])
                          /\ Get(extStore[i]) # req[r].result.v
\* a get on a request without a handle cookie returned no session
C9_WitnessNoHandle ==
    \E r \in Reqs :
        /\ Finished(r, "stateful", "get")
        /\ req[r].cookies[Identifier] = Undefined
        /\ req[r].result = [k |-> "none"]
        /\ \E i \in Ids : IsSome(extStore[i])

\* C10 (as the specification states it): every stateful delete deletes the
\* handle cookie, whether no handle is present, the handle resolves to an
\* id, the handle does not decrypt or the external store's delete fails; it
\* calls the external store's delete, with the id of the handle, exactly
\* when the handle resolves to an id.
C10_DeleteAlwaysClearsHandle ==
    \A r \in Reqs :
        Finished(r, "stateful", "delete") =>
            /\ \E i \in 1..Len(req[r].resp) :
                  req[r].resp[i] = deleteCookie(Identifier)
            /\ Events(r, "delete", {"issued"}) # {} <=> req[r].lookup.k = "ok"
            /\ \A i \in Events(r, "delete", AnyEv) :
                  req[r].calls[i].id = req[r].lookup.id
\* a delete on a request whose handle cookie does not decrypt ended with
\* the error of decrypt and left the handle cookie alone
C10_Witness ==
    \E r \in Reqs :
        /\ Finished(r, "stateful", "delete")
        /\ IsSome(req[r].cookies[Identifier])
        /\ req[r].lookup.k = "error"
        /\ req[r].result = [k |-> "error", e |-> "decrypt"]
        /\ req[r].calls = << >>
        /\ req[r].resp = << >>
\* a delete whose call of the external store failed ended with that error
\* and left the handle cookie alone
C10_WitnessStoreFails ==
    \E r \in Reqs :
        /\ Finished(r, "stateful", "delete")
        /\ req[r].from = "browser"
        /\ req[r].pc = "done"
        /\ req[r].lookup.k = "ok"
        /\ Events(r, "delete", {"failed"}) # {}
        /\ req[r].result = [k |-> "error", e |-> "store"]
        /\ req[r].resp = << >>
        /\ BrowserHandle = req[r].cookies[Identifier]

(***************************************************************************)
(* Backchannel logout: properties                                          *)
(***************************************************************************)
\* C11: stateful deleteByLogoutToken(claims) calls deleteByLogoutToken of
\* the external store exactly once, with the claims it was given, and ends
\* as that call ends; it calls neither get, set nor delete of the external
\* store, reads no cookie (no handle lookup, no decrypt) and leaves no
\* Set-Cookie header on the response.
C11_LogoutDelegates ==
    \A r \in Reqs :
        (req[r].store = "stateful" /\ req[r].op = "logout") =>
            LET q == req[r]
                claims == Get(q.payload)
                issued == [m |-> "deleteByLogoutToken", id |-> claims,
                           ev |-> "issued", ret |-> Undefined]
            IN  /\ \A m \in {"get", "set", "delete"} : Events(r, m, AnyEv) = {}
                /\ q.decrypts = 0
                /\ q.lookup = [k |-> "pending"]
                /\ q.resp = << >>
                /\ q.pc = "awaitLogout" =>
                      /\ q.calls # << >>
                      /\ q.calls[1] = issued
                      /\ Len(q.calls) <= 2
                /\ q.pc \in {"respond", "done"} =>
                      \/ /\ q.calls = << issued, [issued EXCEPT !.ev = "done"] >>
                         /\ q.result = [k |-> "void"]
                      \/ /\ q.calls = << issued, [issued EXCEPT !.ev = "failed"] >>
                         /\ q.result = [k |-> "error", e |-> "store"]
\* a backchannel logout that carried the browser's handle cookie succeeded,
\* the store dropped the session of that handle, and the browser still
\* holds the handle cookie
C11_Witness ==
    \E r \in Reqs :
        /\ req[r].store = "stateful" /\ req[r].op = "logout"
        /\ req[r].pc = "done"
        /\ req[r].result = [k |-> "void"]
        /\ IsSome(req[r].cookies[Identifier])
        /\ BrowserHandle = req[r].cookies[Identifier]
        /\ extStore[Get(BrowserHandle)[1].ct.body.id] = Undefined

\* C12: stateless deleteByLogoutToken fails with the
\* backchannel-logout-unsupported error on every call, whatever the claims
\* and whatever cookies the request carries; it reads no cookie, leaves no
\* Set-Cookie header, and the cookies of the sender are what they were.
C12_StatelessLogoutRejects ==
    \A r \in Reqs :
        (Finished(r, "stateless", "logout")) =>
            /\ req[r].result = [k |-> "error", e |-> "BackchannelLogoutError"]
            /\ req[r].resp = << >>
            /\ req[r].decrypts = 0
            /\ ResultingCookies(r) = req[r].cookies
            /\ (req[r].pc = "done" /\ req[r].from = "browser") =>
                  \A n \in CookieNames :
                      CookieHeader(jar, nowMs)[n] =
                         IF IsSome(jar[n]) /\ Get(jar[n]).expires > nowMs
                         THEN req[r].cookies[n] ELSE Undefined
\* a backchannel logout on a request that carried the 10 chunk cookies of a
\* session was refused and the browser still holds the 10 chunks
C12_Witness ==
    \E r \in Reqs :
        /\ Finished(r, "stateless", "logout")
        /\ req[r].pc = "done"
        /\ req[r].from = "browser"
        /\ req[r].result.k = "error"
        /\ \A i \in 0..(ChunkLimit - 1) :
              /\ IsSome(req[r].cookies[ChunkName(Identifier, i)])
              /\ CookieHeader(jar, nowMs)[ChunkName(Identifier, i)]
                    = req[r].cookies[ChunkName(Identifier, i)]

(***************************************************************************)
(* Expiration policy: properties                                           *)
(***************************************************************************)
\* calculateMaxAge has been applied
Applied == calc.f = "calculateMaxAge"

\* C13: calculateMaxAge(createdAt) is absoluteDuration when rolling is
\* disabled, whatever createdAt and the clock; when rolling is enabled it is
\* max(0, min(now + inactivityDuration, createdAt + absoluteDuration) - now)
\* with now the epoch second of the clock at the call.
C13_MaxAgeFormula ==
    Applied =>
        LET now == calc.createdAt + calc.elapsed
            out == Get(calc.out)
        IN  /\ ~config.rolling => out = config.absoluteDuration
            /\ config.rolling =>
                  out = Max(0, Min(now + config.inactivityDuration,
                                   calc.createdAt + config.absoluteDuration)
                               - now)
\* with rolling, 999 ms into second 4 of a session with an inactivity window
\* of 3 and an absolute duration of 5, the absolute cap left a max-age of 1
C13_Witness ==
    /\ Applied
    /\ config.rolling
    /\ calc.ms = 999
    /\ config.inactivityDuration = 3 /\ config.absoluteDuration = 5
    /\ calc.elapsed = 4
    /\ Get(calc.out) = 1

\* C14: with rolling enabled and createdAt <= now, calculateMaxAge is at
\* least 0, at most absoluteDuration and at most inactivityDuration, and is
\* exactly 0 whenever createdAt + absoluteDuration <= now.
C14_MaxAgeBounds ==
    (Applied /\ config.rolling /\ calc.elapsed >= 0) =>
        LET out == Get(calc.out)
        IN  /\ out >= 0
            /\ out <= config.absoluteDuration
            /\ out <= config.inactivityDuration
            /\ calc.elapsed >= config.absoluteDuration => out = 0
\* three seconds past the absolute cap the max-age is 0, where the
\* difference of expiry and clock is negative
C14_Witness ==
    /\ Applied
    /\ config.rolling
    /\ config.absoluteDuration = 5
    /\ calc.elapsed = 8
    /\ ExpiresAt(config, calc.createdAt, ClockOf(calc)) - ClockOf(calc) = -3
    /\ Get(calc.out) = 0

\* the scenario of C15: rolling, the default durations, a session created at
\* 1600000000 and the clock 90000 seconds later
DefaultScenario ==
    /\ Applied
    /\ config = [rolling |-> TRUE,
                 absoluteDuration |-> DefaultAbsoluteDuration,
                 inactivityDuration |-> DefaultInactivityDuration]
    /\ calc.createdAt = ScenarioCreatedAt
    /\ calc.elapsed = 90000
\* C15 (as the specification states it): in the scenario the max-age is 0.
C15_ScenarioExpired == DefaultScenario => Get(calc.out) = 0
\* C15 (amended): in the scenario the max-age is the inactivity window,
\* 86400: the window is counted from the clock at the call, not from
\* createdAt, and the absolute cap is 169200 seconds away.
C15_ScenarioMaxAge ==
    DefaultScenario =>
        /\ Get(calc.out) = 86400
        /\ Get(calc.out) = DefaultInactivityDuration
        /\ ScenarioCreatedAt + DefaultAbsoluteDuration - ClockOf(calc) = 169200
\* the scenario has been evaluated, 999 ms into second 1600090000, and the
\* max-age is above zero
C15_Witness ==
    /\ DefaultScenario
    /\ ClockOf(calc) = 1600090000
    /\ calc.ms = 999
    /\ Get(calc.out) > 0

(***************************************************************************)
(* Expiry over a sequence of set calls                                     *)
(***************************************************************************)
\* the instant, in milliseconds, at which a session created at createdAt
\* reaches its absolute duration
AbsoluteCap(createdAt) == (createdAt + config.absoluteDuration) * MsPerSec

\* C16 (as the specification states it): with rolling disabled, whenever a
\* stateless set is made for a payload at a time t >= createdAt, the expiry
\* it gives the cookies (t + max-age) and the expiry it gives the envelope
\* do not exceed createdAt + absoluteDuration.
C16_FixedExpiry ==
    \A r \in Reqs :
        (Finished(r, "stateless", "set") /\ ~config.rolling
            /\ req[r].result = [k |-> "void"]) =>
            LET cap == AbsoluteCap(Get(req[r].payload).createdAt)
            IN  /\ req[r].at + req[r].resp[1].maxAge * MsPerSec <= cap
                /\ Get(req[r].enc).exp <= cap
\* with rolling disabled, a set made one second after createdAt has given
\* the browser cookies that outlive createdAt + absoluteDuration
C16_Witness ==
    \E r \in Reqs :
        /\ Finished(r, "stateless", "set")
        /\ ~config.rolling
        /\ req[r].pc = "done"
        /\ req[r].at = MsPerSec
        /\ Get(req[r].payload).createdAt = 0
        /\ IsSome(jar[ChunkName(Identifier, 0)])
        /\ Get(jar[ChunkName(Identifier, 0)]).expires
              > AbsoluteCap(Get(req[r].payload).createdAt)
        /\ Get(req[r].enc).exp > AbsoluteCap(Get(req[r].payload).createdAt)

RECURSIVE ValueHeaders(_)
ValueHeaders(resp) ==
    IF resp = << >> THEN << >>
    ELSE IF Head(resp).val # << >>
    THEN << Head(resp) >> \o ValueHeaders(Tail(resp))
    ELSE ValueHeaders(Tail(resp))

\* C18: a stateless set on an encrypted string of length L (of at most 10
\* chunks) writes exactly ceil(L / 3072) cookies, named identifier.0,
\* identifier.1, ... in this order; each but the last holds 3072 characters
\* and the last the remaining L - 3072 * (count - 1); 7000 characters give
\* three cookies of 3072, 3072 and 856 characters.
C18_ChunkLayout ==
    \A r \in Reqs :
        (Finished(r, "stateless", "set") /\ req[r].result = [k |-> "void"]) =>
            LET L == EncLen(Get(req[r].enc))
                count == IF L % 3072 = 0 THEN L \div 3072 ELSE L \div 3072 + 1
                wrote == ValueHeaders(req[r].resp)
            IN  /\ Len(wrote) = count
                /\ \A i \in 1..Len(wrote) :
                      /\ wrote[i].name = ChunkName(Identifier, i - 1)
                      /\ StrLen(wrote[i].val) =
                            IF i < count THEN 3072
                            ELSE L - 3072 * (count - 1)
                      /\ wrote[i] = req[r].resp[i]
                /\ L = 7000 =>
                      [i \in 1..Len(wrote) |-> StrLen(wrote[i].val)]
                         = << 3072, 3072, 856 >>
\* a set of 7000 characters wrote identifier.0, identifier.1, identifier.2
\* with 3072, 3072 and 856 characters
C18_Witness ==
    \E r \in Reqs :
        /\ Finished(r, "stateless", "set")
        /\ req[r].result = [k |-> "void"]
        /\ EncLen(Get(req[r].enc)) = 7000
        /\ Len(ValueHeaders(req[r].resp)) = 3
        /\ StrLen(ValueHeaders(req[r].resp)[3].val) = 856
        /\ ValueHeaders(req[r].resp)[3].name = "appSession.2"

(***************************************************************************)
(* Stateless get on a Cookie header: the chunk cookies of one set, in the  *)
(* order the header lists them, one of them possibly missing.  Both        *)
(* variants of get are applied: the one reading the slots 0..9 by name and *)
(* the context-taking one, which sorts the names found in the header.      *)
(***************************************************************************)
\* the sequence s started at its element k + 1, and s backwards
Rotate(s, k) == [i \in 1..Len(s) |-> s[((i - 1 + k) % Len(s)) + 1]]
Reverse(s) == [i \in 1..Len(s) |-> s[Len(s) + 1 - i]]
\* s without its element d (all of s when d = 0)
Without(s, d) ==
    IF d = 0 THEN s
    ELSE [i \in 1..(Len(s) - 1) |-> IF i < d THEN s[i] ELSE s[i + 1]]
\* how far a header is rotated
MaxTurn == 2
\* the chunk cookies of the context-taking set (no ceiling on their number)
\* made at time 0, as name / value pairs in the order they are set
ContextSetChunks(cfg, identifier, stateData, iv) ==
    LET maxAge == calculateMaxAge(cfg, stateData.createdAt, 0)
        expiration == StatelessExpiration(0, maxAge)
        ct == encrypt(identifier, stateData, expiration, iv)
    IN  [j \in 1..ChunkCount(ct) |->
           [name |-> ChunkName(identifier, j - 1), val |-> ChunkValue(ct, j - 1)]]
\* the payloads whose chunk cookies a header carries: 2, 3, 10 and 11 chunks
HeaderPayloads == {p \in Payloads : p.size > ChunkSize}
\* cookies of the request that are none of the identifier's chunk cookies:
\* an unrelated one and two whose names merely begin with the identifier
StrayNames == {"other-cookie", "appSessionfoo", "appSession2.0"}
\* the value of a stray cookie: a whole ciphertext of another application
StrayValue(name) == StringOf(encrypt(name, [createdAt |-> 0, size |-> 1], 0, 0))
StrayCookie(name) == [name |-> name, val |-> StrayValue(name)]
\* the strays a header carries, in the order it lists them
Strays == { << >>,
            << StrayCookie("other-cookie") >>,
            << StrayCookie("appSession2.0") >>,
            << StrayCookie("appSessionfoo") >>,
            << StrayCookie("other-cookie"), StrayCookie("appSession2.0") >> }
\* the names a Cookie header can list
HeaderNames == CookieNames \cup StrayNames
\* getCookie(name) on a Cookie header that lists each name once
ParseCookieHeader(header) ==
    [n \in HeaderNames |->
        IF \E i \in 1..Len(header) : header[i].name = n
        THEN Some(header[CHOOSE i \in 1..Len(header) : header[i].name = n].val)
        ELSE Undefined]
\* name.startsWith(identifier)
StartsWith(name, identifier) ==
    /\ Len(name) >= Len(identifier)
    /\ SubSeq(name, 1, Len(identifier)) = identifier
\* getCookieKeys: the names of the header that start with the identifier,
\* in the order of the header
getCookieKeys(identifier, header) ==
    LET names == [i \in 1..Len(header) |-> header[i].name]
    IN  SelectSeq(names, LAMBDA name : StartsWith(name, identifier))
\* key.split(".")[1]: the text between the first dot and the next one, or
\* undefined when the key has no dot
SplitSecond(key) ==
    LET dots == {i \in 1..Len(key) : SubSeq(key, i, i) = "."}
    IN  IF dots = {} THEN Undefined
        ELSE LET first == CHOOSE i \in dots : \A j \in dots : i <= j
                 later == {j \in dots : j > first}
                 next == IF later = {} THEN Len(key) + 1
                         ELSE CHOOSE j \in later : \A k \in later : j <= k
             IN  Some(SubSeq(key, first + 1, next - 1))
\* the value of a decimal digit, -1 for any other character
DecimalDigits == "0123456789"
DigitOf(c) ==
    IF \E d \in 1..10 : SubSeq(DecimalDigits, d, d) = c
    THEN (CHOOSE d \in 1..10 : SubSeq(DecimalDigits, d, d) = c) - 1
    ELSE -1
\* what parseInt gives a text that does not start with a digit
NaN == -1
\* parseInt(text, 10) on a text without sign or leading blanks: the number
\* its leading digits spell, NaN when there is none
RECURSIVE DigitsValue(_, _, _)
DigitsValue(text, i, acc) ==
    IF i > Len(text) \/ DigitOf(SubSeq(text, i, i)) = -1 THEN acc
    ELSE DigitsValue(text, i + 1, 10 * acc + DigitOf(SubSeq(text, i, i)))
parseInt(text) ==
    IF text = Undefined THEN NaN
    ELSE IF Len(Get(text)) = 0 \/ DigitOf(SubSeq(Get(text), 1, 1)) = -1 THEN NaN
    ELSE DigitsValue(Get(text), 1, 0)
\* an index read as text: "10" comes between "1" and "2"
ParseIndexAsText(key) ==
    LET i == parseInt(SplitSecond(key))
    IN  IF i = NaN THEN NaN
        ELSE IF i < 10 THEN 10 * i ELSE 10 * (i \div 10) + (i % 10) + 1
\* parseInt(key.split(".")[1], 10)
ParseIndex(key) == parseInt(SplitSecond(key))
\* items.sort((a, b) => a.index - b.index) when every index is a number:
\* stable, ascending
SortByIndex(items) ==
    LET Before(i, j) == \/ items[i].index < items[j].index
                        \/ items[i].index = items[j].index /\ i < j
        Rank(j) == Cardinality({i \in 1..Len(items) : Before(i, j)}) + 1
    IN  [p \in 1..Len(items) |->
           items[CHOOSE j \in 1..Len(items) : Rank(j) = p]]
\* every order of the items
Orders(items) ==
    LET n == Len(items)
        perms == {f \in [1..n -> 1..n] : \A i, j \in 1..n : f[i] = f[j] => i = j}
    IN  {[p \in 1..n |-> items[f[p]]] : f \in perms}
\* the orders the sort can leave the items in: with a NaN index the
\* comparator answers NaN, which sort takes for "equal" whatever the other
\* index is, so the comparator is inconsistent and the order is the
\* implementation's choice
SortOutcomes(items) ==
    IF \E i \in 1..Len(items) : items[i].index = NaN
    THEN Orders(items)
    ELSE {SortByIndex(items)}
\* StatelessStateStore.get, context-taking variant: its possible outcomes
ContextGet(identifier, header, atMs) ==
    LET cookieKeys == getCookieKeys(identifier, header)
        cookies == ParseCookieHeader(header)
        items == [i \in 1..Len(cookieKeys) |->
                    [index |-> ParseIndex(cookieKeys[i]),
                     value |-> getCookie(cookies, cookieKeys[i])]]
        Outcome(sorted) ==
            LET encryptedStateData ==
                    Join([i \in 1..Len(sorted) |-> sorted[i].value])
            IN  IF encryptedStateData # << >>
                THEN [result |-> decrypt(identifier, encryptedStateData, atMs),
                      assembled |-> encryptedStateData, decrypts |-> 1]
                ELSE [result |-> [k |-> "none"],
                      assembled |-> encryptedStateData, decrypts |-> 0]
    IN  {Outcome(sorted) : sorted \in SortOutcomes(items)}

\* StatelessStateStore.set, context-taking variant: the chunk cookies, then
\* a deleting header for every name getCookieKeys finds that is no chunk of
\* this set
ContextSet(cfg, identifier, stateData, header, atMs, iv) ==
    LET maxAge == calculateMaxAge(cfg, stateData.createdAt, atMs)
        cookieOpts == SessionCookieOpts(maxAge)
        expiration == StatelessExpiration(atMs, maxAge)
        ct == encrypt(identifier, stateData, expiration, iv)
        chunkCount == ChunkCount(ct)
        chunks == [j \in 1..chunkCount |->
                     [name |-> ChunkName(identifier, j - 1),
                      value |-> ChunkValue(ct, j - 1)]]
        existingCookieKeys == getCookieKeys(identifier, header)
        cookieKeysToRemove ==
            SelectSeq(existingCookieKeys,
                      LAMBDA key : ~\E j \in 1..chunkCount : chunks[j].name = key)
    IN  [result |-> [k |-> "void"],
         resp |-> [j \in 1..chunkCount |->
                     setCookie(chunks[j].name, chunks[j].value, cookieOpts)]
                  \o [j \in 1..Len(cookieKeysToRemove) |->
                        deleteCookie(cookieKeysToRemove[j])]]
\* StatelessStateStore.delete, context-taking variant
ContextDelete(identifier, header) ==
    LET cookieKeys == getCookieKeys(identifier, header)
    IN  [j \in 1..Len(cookieKeys) |-> deleteCookie(cookieKeys[j])]

\* the chunk cookies of one set without chunk d, rotated and possibly
\* listed backwards
ListedChunks(pairs, d, k, back) ==
    LET kept == Without(pairs, d)
        turned == IF kept = << >> THEN kept ELSE Rotate(kept, k % Len(kept))
    IN  IF back THEN Reverse(turned) ELSE turned
InitHeader ==
    /\ nowMs = 0
    /\ config \in Configs
    /\ jar = NoCookies
    /\ req = [r \in Reqs |-> IdleReq]
    /\ written = Undefined
    /\ extStore = [i \in Ids |-> Undefined]
    /\ idCount = 0
    /\ captured = Undefined
    /\ retired = {}
    /\ \E p \in HeaderPayloads, back \in BOOLEAN, k \in 0..MaxTurn,
          strays \in Strays, first \in BOOLEAN, any \in BOOLEAN :
          LET pairs == ContextSetChunks(config, Identifier, p, 0)
          IN  \E d \in 0..Len(pairs) :
                 LET chunks == IF any THEN ListedChunks(pairs, d, k, back)
                               ELSE << >>
                 IN  /\ any \/ (d = 0 /\ k = 0 /\ ~back)
                     /\ strays # << >> =>
                           /\ Len(pairs) <= 3 /\ k = 0
                           /\ any => d = 0
                     /\ calc = [f |-> "input",
                                ct |-> pairs[1].val[1].ct,
                                missing |-> d - 1,
                                header |-> chunks,
                                strays |-> strays,
                                cookie |-> IF first THEN strays \o chunks
                                           ELSE chunks \o strays,
                                out |-> Undefined,
                                ctx |-> Undefined]
\* both variants of get on the request with that Cookie header
ApplyGet ==
    /\ calc.f = "input"
    /\ \E o \in ContextGet(Identifier, calc.cookie, nowMs) :
          calc' = [calc EXCEPT
                     !.f = "get",
                     !.out = Some(StatelessGet(Identifier,
                                               ParseCookieHeader(calc.cookie),
                                               nowMs)),
                     !.ctx = Some(o)]
    /\ UNCHANGED << nowMs, config, jar, req, written, stateful >>
\* both variants of delete on the request with that Cookie header
ApplyDelete ==
    /\ calc.f = "input"
    /\ calc' = [calc EXCEPT
                  !.f = "delete",
                  !.out = Some([resp |-> StatelessDelete(Identifier)]),
                  !.ctx = Some([resp |-> ContextDelete(Identifier, calc.cookie)])]
    /\ UNCHANGED << nowMs, config, jar, req, written, stateful >>
\* both variants of set on the request with that Cookie header: the session
\* the chunks belong to is saved again
ApplySet ==
    /\ calc.f = "input"
    /\ LET live == StatelessSet(config, Identifier, calc.ct.body, nowMs, 1)
           old == ContextSet(config, Identifier, calc.ct.body, calc.cookie,
                             nowMs, 1)
       IN  calc' = [calc EXCEPT
                      !.f = "set",
                      !.out = Some([resp |-> live.resp, result |-> live.result]),
                      !.ctx = Some([resp |-> old.resp, result |-> old.result])]
    /\ UNCHANGED << nowMs, config, jar, req, written, stateful >>
\* time passes before the request is made
HeaderTick ==
    /\ calc.f = "input"
    /\ nowMs < MaxTime * MsPerSec
    /\ nowMs' = nowMs + MsPerSec
    /\ UNCHANGED << config, calc, jar, req, written, stateful >>

NextHeader ==
    \/ HeaderTick
    \/ ApplyGet
    \/ ApplySet
    \/ ApplyDelete

SpecHeader == InitHeader /\ [][NextHeader]_vars

(***************************************************************************)
(* Stateless get on a Cookie header: properties                            *)
(***************************************************************************)
\* both variants of get have been applied to the header
GetApplied == calc.f = "get"
\* the number of characters of the values a header lists
RECURSIVE HeaderChars(_)
HeaderChars(header) ==
    IF header = << >> THEN 0
    ELSE StrLen(header[1].val) + HeaderChars(Tail(header))
\* the string s is made of characters of ct at ascending positions
Ascending(s, ct) ==
    /\ \A i \in 1..Len(s) : s[i].ct = ct /\ s[i].lo < s[i].hi
    /\ \A i, j \in 1..Len(s) : i < j => s[i].hi <= s[j].lo
\* the header lists chunk cookies of the slots 0..9 only
WithinScan == \A i \in 1..Len(calc.header) :
                 calc.header[i].name # ChunkName(Identifier, 10)
\* the header lists no stray whose name begins with the identifier
NoPrefixStray == \A i \in 1..Len(calc.strays) :
                    ~StartsWith(calc.strays[i].name, Identifier)
\* what decrypt answers on the whole ciphertext at the time of the get
WholeAnswer ==
    IF calc.ct.exp <= nowMs
    THEN [k |-> "error", e |-> "decrypt"]
    ELSE [k |-> "ok", v |-> calc.ct.body]
\* the outcome o of a get is the header's values in ascending index order,
\* handed to decrypt
InIndexOrder(o) ==
    /\ Ascending(o.assembled, calc.ct)
    /\ StrLen(o.assembled) = HeaderChars(calc.header)
    /\ o.decrypts = 1
    /\ calc.missing = -1 =>
          /\ o.assembled = << [ct |-> calc.ct, lo |-> 0,
                               hi |-> calc.ct.body.size] >>
          /\ o.result = WholeAnswer

\* C19: stateless get hands decrypt the chunk values concatenated in
\* ascending numeric order of their index, whatever the order in which the
\* Cookie header lists them: index 1 before index 2, and, for the variant
\* that takes the names from the header, index 10 after index 9.  The stored
\* payload comes back when no chunk is missing and the envelope has not
\* expired.  The variant that reads the slots by name reads 0..9 only, which
\* are all the slots its set writes.
C19_NumericOrder ==
    (GetApplied /\ calc.header # << >>) =>
       /\ NoPrefixStray => InIndexOrder(Get(calc.ctx))
       /\ WithinScan => InIndexOrder(Get(calc.out))
\* C19 witness: a header that lists the eleven chunks of a session from
\* index 10 down to index 0, and the get returned the payload
C19_Witness ==
    /\ GetApplied
    /\ Len(calc.header) = 11
    /\ calc.header[1].name = "appSession.10"
    /\ calc.header[2].name = "appSession.9"
    /\ Get(calc.ctx).result.k = "ok"
\* C19 witness: a header that lists index 2 before index 1 and index 0
\* last, read by the variant that reads the slots by name
C19_WitnessByName ==
    /\ GetApplied
    /\ Len(calc.header) = 3
    /\ calc.header[1].name = "appSession.2"
    /\ calc.header[2].name = "appSession.1"
    /\ Get(calc.out).result.k = "ok"

\* the header lacks a middle chunk: a lower and a higher index are listed
GapCase ==
    /\ GetApplied
    /\ calc.missing > 0
    /\ \E i \in 1..Len(calc.header) :
          ParseIndex(calc.header[i].name) > calc.missing
\* C20: a stateless get on a header with a gap in the chunk indices never
\* returns a payload and never answers "no session": it hands what is left
\* to decrypt and surfaces the failure of decrypt.
C20_GapFails ==
    GapCase =>
       /\ Get(calc.out).result = [k |-> "error", e |-> "decrypt"]
       /\ Get(calc.ctx).result = [k |-> "error", e |-> "decrypt"]
       /\ Get(calc.out).decrypts = 1
       /\ Get(calc.ctx).decrypts = 1
\* C20 witness: identifier.0 and identifier.2 present, identifier.1 absent,
\* the envelope not expired, and the get failed
C20_Witness ==
    /\ GapCase
    /\ calc.missing = 1
    /\ Len(calc.header) = 2
    /\ calc.header[1].name = "appSession.0"
    /\ calc.header[2].name = "appSession.2"
    /\ calc.ct.exp > nowMs
    /\ Get(calc.out).result.k = "error"

\* the request carries no chunk cookie of the identifier
NoChunkCase == GetApplied /\ calc.header = << >>
\* C21: a stateless get on a request without any chunk cookie of the
\* identifier, whether it carries no cookie at all or only cookies of other
\* names, returns no session, raises no error and does not call decrypt.
\* The variant that takes the names from the header is held to this for
\* requests whose other cookies do not begin with the identifier.
C21_NoCookieNoSession ==
    NoChunkCase =>
       /\ Get(calc.out).result = [k |-> "none"]
       /\ Get(calc.out).decrypts = 0
       /\ NoPrefixStray =>
             /\ Get(calc.ctx).result = [k |-> "none"]
             /\ Get(calc.ctx).decrypts = 0
\* C21 witness: a get on a request that carries only other-cookie
C21_Witness ==
    /\ NoChunkCase
    /\ Len(calc.cookie) = 1
    /\ calc.cookie[1].name = "other-cookie"
    /\ Get(calc.out).result.k = "none"
\* C21 witness: a get on a request that carries no cookie
C21_WitnessEmpty ==
    /\ NoChunkCase
    /\ calc.cookie = << >>
    /\ Get(calc.ctx).result.k = "none"

(***************************************************************************)
(* Stateless delete: properties                                            *)
(***************************************************************************)
\* the chunk cookies request r carried
ChunksSent(r) == {i \in 0..9 : IsSome(req[r].cookies[ChunkName(Identifier, i)])}
\* C22: a stateless delete leaves a deleting header for each of the chunk
\* cookies identifier.0 .. identifier.9, whatever number of them the request
\* carried; the cookies that result hold none of them, and a get on those
\* cookies returns no session without calling decrypt.
C22_DeleteClearsAll ==
    \A r \in Reqs :
        Finished(r, "stateless", "delete") =>
           /\ req[r].result = [k |-> "void"]
           /\ Len(req[r].resp) = 10
           /\ \A i \in 0..9 :
                 /\ req[r].resp[i + 1].name = ChunkName(Identifier, i)
                 /\ req[r].resp[i + 1].val = << >>
                 /\ req[r].resp[i + 1].maxAge = 0
                 /\ ResultingCookies(r)[ChunkName(Identifier, i)] = Undefined
           /\ LET after == StatelessGet(Identifier, ResultingCookies(r), nowMs)
              IN  after.result = [k |-> "none"] /\ after.decrypts = 0
\* C22 witness: a delete on a request that carried the ten chunk cookies of
\* a session
C22_Witness ==
    \E r \in Reqs :
        /\ Finished(r, "stateless", "delete")
        /\ ChunksSent(r) = 0..9
\* C22 witness: a delete on a request that carried three chunk cookies
C22_WitnessThree ==
    \E r \in Reqs :
        /\ Finished(r, "stateless", "delete")
        /\ ChunksSent(r) = 0..2

(***************************************************************************)
(* Cookie names the stateless store touches: properties                    *)
(***************************************************************************)
\* the chunk cookie names of the identifier: identifier.0 .. identifier.9
ExactNames == {ChunkName(Identifier, i) : i \in 0..9}
\* the request lists a stray cookie
StrayCase == calc.f \in {"get", "set", "delete"} /\ calc.strays # << >>
\* the outcome o of the operation applied to the header touched the
\* identifier's chunk cookies only: a get assembled its string from their
\* values, a set or a delete left headers for their names
TouchesExactNames(o) ==
    IF calc.f = "get"
    THEN \A i \in 1..Len(o.assembled) : o.assembled[i].ct = calc.ct
    ELSE \A i \in 1..Len(o.resp) : o.resp[i].name \in ExactNames
\* C23: set, get and delete of the stateless store read, write and delete
\* only the cookies identifier.0 .. identifier.9; a cookie of another name,
\* one whose name begins with the identifier included, is not part of the
\* string get assembles and gets no header from set or delete.  Stated for
\* both variants of the store; the variant that takes the names from the
\* Cookie header breaks it.
C23_ExactNamesOnly ==
    StrayCase =>
       /\ TouchesExactNames(Get(calc.out))
       /\ TouchesExactNames(Get(calc.ctx))
\* the same for the variant that reads and clears the slots by name, which
\* keeps it
C23_ExactNamesByName ==
    StrayCase =>
       TouchesExactNames(Get(calc.out))
\* C23 witness: a get on a request that lists appSession2.0 beside the
\* chunks, whose value the variant reading the header put into the string
\* it handed to decrypt
C23_Witness ==
    /\ StrayCase
    /\ calc.f = "get"
    /\ \E i \in 1..Len(calc.strays) : calc.strays[i].name = "appSession2.0"
    /\ \E i \in 1..Len(Get(calc.ctx).assembled) :
          Get(calc.ctx).assembled[i].ct.ident = "appSession2.0"
    /\ TouchesExactNames(Get(calc.out))
\* C23 witness: a delete on a request that lists appSessionfoo, which the
\* variant reading the header deleted
C23_WitnessDelete ==
    /\ StrayCase
    /\ calc.f = "delete"
    /\ \E i \in 1..Len(Get(calc.ctx).resp) :
          Get(calc.ctx).resp[i].name = "appSessionfoo"
    /\ TouchesExactNames(Get(calc.out))

(***************************************************************************)
(* Transaction store (CookieTransactionStore): one cookie named by the     *)
(* identifier, kept for an hour.                                           *)
(***************************************************************************)
\* const maxAge = 60 * 60
TransactionMaxAge == 60 * 60
\* the clock of the transaction store's requests advances by half seconds
HalfSecond == 500
\* transaction payloads (TransactionData); the size is the length of the
\* encrypted form, one of them longer than a session chunk
TransactionPayloads == [state : {"tx-1", "tx-2"}, size : {2, ChunkSize + 1}]
\* cookieOpts of the transaction store, as HonoCookieHandler.setCookie
\* passes them on (no secure attribute)
TransactionCookieOpts(maxAge) ==
    [httpOnly |-> TRUE, sameSite |-> "Lax", path |-> "/", secure |-> FALSE,
     maxAge |-> maxAge]
\* a set that takes the max-age from the session's expiration policy
TransactionSetSessionPolicy(identifier, transactionData, atMs, iv) ==
    LET maxAge == calculateMaxAge(config, 0, atMs)
        expiration == StatelessExpiration(atMs, maxAge)
        encryptedStateData == encrypt(identifier, transactionData, expiration, iv)
    IN  [result |-> [k |-> "void"], enc |-> Some(encryptedStateData),
         maxAge |-> maxAge,
         resp |-> << setCookie(identifier, StringOf(encryptedStateData),
                               TransactionCookieOpts(maxAge)) >>]
\* CookieTransactionStore.set
TransactionSet(identifier, transactionData, atMs, iv) ==
    LET maxAge == TransactionMaxAge
        cookieOpts == TransactionCookieOpts(maxAge)
        expiration == StatelessExpiration(atMs, maxAge)
        encryptedStateData == encrypt(identifier, transactionData, expiration, iv)
    IN  [result |-> [k |-> "void"], enc |-> Some(encryptedStateData),
         maxAge |-> maxAge,
         resp |-> << setCookie(identifier, StringOf(encryptedStateData),
                               cookieOpts) >>]
\* a get that calls decrypt whether or not there is a cookie
TransactionGetNoGuard(identifier, cookies, atMs) ==
    LET cookieValue == getCookie(cookies, identifier)
    IN  [result |-> decrypt(identifier,
                            IF IsSome(cookieValue) THEN Get(cookieValue)
                            ELSE << >>, atMs),
         decrypts |-> 1]
\* CookieTransactionStore.get
TransactionGet(identifier, cookies, atMs) ==
    LET cookieValue == getCookie(cookies, identifier)
    IN  IF IsSome(cookieValue) /\ Get(cookieValue) # << >>
        THEN [result |-> decrypt(identifier, Get(cookieValue), atMs),
              decrypts |-> 1]
        ELSE [result |-> [k |-> "none"], decrypts |-> 0]
\* a delete that leaves the cookie alone
TransactionDeleteNothing(identifier) == << >>
\* CookieTransactionStore.delete
TransactionDelete(identifier) == << deleteCookie(identifier) >>

\* a cookie value cut short: the first character of the ciphertext is left
Truncated(value) == << [value[1] EXCEPT !.hi = value[1].lo + 1] >>
\* a request reaches the transaction store: from the browser with its live
\* cookies, or from someone who presents a forged cookie or the browser's
\* cookie cut short
TransactionRequest(r) ==
    /\ Quiet
    /\ \E op \in {"set", "get", "delete"} :
       \E p \in IF op = "set" THEN {Some(d) : d \in TransactionPayloads}
                ELSE {Undefined} :
       \E from \in {"browser", "forged", "tampered"} :
          LET sent == CookieHeader(jar, nowMs)
          IN  /\ from # "browser" => op = "get"
              /\ from = "tampered" => IsSome(sent[Identifier])
              /\ req' = [req EXCEPT ![r] =
                    [IdleReq EXCEPT
                       !.pc = "run", !.store = "transaction", !.op = op,
                       !.payload = p, !.from = from,
                       !.cookies =
                          IF from = "browser" THEN sent
                          ELSE [NoCookies EXCEPT ![Identifier] =
                                  IF from = "forged" THEN Some(Forged)
                                  ELSE Some(Truncated(Get(sent[Identifier])))]]]
    /\ UNCHANGED << nowMs, config, calc, jar, written, stateful >>

TransactionSetStep(r) ==
    /\ req[r].pc = "run" /\ req[r].store = "transaction" /\ req[r].op = "set"
    /\ \E iv \in IVs :
          LET out == TransactionSet(Identifier, Get(req[r].payload), nowMs, iv)
          IN  req' = [req EXCEPT ![r].pc = "respond", ![r].at = nowMs,
                                 ![r].maxAge = out.maxAge,
                                 ![r].enc = out.enc, ![r].resp = out.resp,
                                 ![r].result = out.result]
    /\ UNCHANGED << nowMs, config, calc, jar, written, stateful >>

TransactionGetStep(r) ==
    /\ req[r].pc = "run" /\ req[r].store = "transaction" /\ req[r].op = "get"
    /\ LET out == TransactionGet(Identifier, req[r].cookies, nowMs)
       IN  req' = [req EXCEPT ![r].pc = "respond", ![r].at = nowMs,
                              ![r].decrypts = out.decrypts,
                              ![r].result = out.result]
    /\ UNCHANGED << nowMs, config, calc, jar, written, stateful >>

TransactionDeleteStep(r) ==
    /\ req[r].pc = "run" /\ req[r].store = "transaction" /\ req[r].op = "delete"
    /\ req' = [req EXCEPT ![r].pc = "respond", ![r].at = nowMs,
                          ![r].resp = TransactionDelete(Identifier),
                          ![r].result = [k |-> "void"]]
    /\ UNCHANGED << nowMs, config, calc, jar, written, stateful >>

\* half a second passes
TransactionTick ==
    /\ \/ nowMs < MaxTime * MsPerSec
       \/ /\ nowMs >= TransactionMaxAge * MsPerSec - HalfSecond
          /\ nowMs < (TransactionMaxAge + MaxTime) * MsPerSec
    /\ nowMs' = nowMs + HalfSecond
    /\ UNCHANGED << config, calc, jar, req, written, stateful >>
\* an hour less half a second passes, once
TransactionHour ==
    /\ nowMs <= MaxTime * MsPerSec
    /\ nowMs' = nowMs + TransactionMaxAge * MsPerSec - HalfSecond
    /\ UNCHANGED << config, calc, jar, req, written, stateful >>

NextTransaction ==
    \/ TransactionTick
    \/ TransactionHour
    \/ \E r \in {1} :
          \/ TransactionRequest(r)
          \/ TransactionSetStep(r)
          \/ TransactionGetStep(r)
          \/ TransactionDeleteStep(r)
          \/ Respond(r)

SpecTransaction == Init /\ [][NextTransaction]_vars

(***************************************************************************)
(* Transaction store: properties                                           *)
(***************************************************************************)
\* C24: a set of the transaction store leaves exactly one Set-Cookie header;
\* it is named by the identifier, carries the whole ciphertext whatever its
\* length, and has Max-Age 3600, HttpOnly, SameSite Lax and Path /; the
\* ciphertext holds the payload and the expiry floor(now) + 3600 seconds.
\* This is so for every payload and every session configuration.
C24_TransactionCookie ==
    \A r \in Reqs :
        Finished(r, "transaction", "set") =>
           LET ct == Get(req[r].enc)
               h == req[r].resp[1]
           IN  /\ req[r].result = [k |-> "void"]
               /\ Len(req[r].resp) = 1
               /\ h.name = Identifier
               /\ h.val = << [ct |-> ct, lo |-> 0, hi |-> ct.body.size] >>
               /\ h.maxAge = 3600
               /\ h.httpOnly
               /\ h.sameSite = "Lax"
               /\ h.path = "/"
               /\ ct.ident = Identifier
               /\ ct.body = Get(req[r].payload)
               /\ ct.exp = (req[r].at \div 1000 + 3600) * 1000
\* C24 witness: a set made half a second past a whole second, of a payload
\* longer than a session chunk, under a rolling session configuration whose
\* own max-age would be 2 seconds at most
C24_Witness ==
    \E r \in Reqs :
        /\ Finished(r, "transaction", "set")
        /\ req[r].at = 1500
        /\ Get(req[r].payload).size > ChunkSize
        /\ config.rolling
        /\ req[r].resp[1].maxAge = 3600

\* the cookies the sender of request r holds at time atMs if it applied the
\* response then to the cookies it sent
ResultingCookiesAt(r, atMs) ==
    LET sent == [n \in CookieNames |->
                    IF IsSome(req[r].cookies[n])
                    THEN Some([val |-> Get(req[r].cookies[n]),
                               expires |-> atMs + 1])
                    ELSE Undefined]
    IN  CookieHeader(ApplyResponse(sent, req[r].resp, atMs), atMs)
\* C25: the transaction store's get returns no data and does not call
\* decrypt when the request has no cookie named by the identifier; a get on
\* the cookies that result from set(identifier, data) returns data; a get on
\* the cookies that result from delete(identifier) returns no data.  A get
\* of the browser that carries the cookie of an earlier set returns that
\* set's data as long as the envelope has not expired.
C25_TransactionLifecycle ==
    \A r \in Reqs :
        /\ (Finished(r, "transaction", "get")
              /\ req[r].cookies[Identifier] = Undefined) =>
              /\ req[r].result = [k |-> "none"]
              /\ req[r].decrypts = 0
        /\ Finished(r, "transaction", "set") =>
              LET after == TransactionGet(Identifier,
                                          ResultingCookiesAt(r, req[r].at),
                                          req[r].at)
              IN  after.result = [k |-> "ok", v |-> Get(req[r].payload)]
        /\ Finished(r, "transaction", "delete") =>
              LET after == TransactionGet(Identifier,
                                          ResultingCookiesAt(r, req[r].at),
                                          req[r].at)
              IN  after.result = [k |-> "none"] /\ after.decrypts = 0
        /\ (Finished(r, "transaction", "get") /\ req[r].from = "browser"
              /\ IsSome(req[r].cookies[Identifier])) =>
              LET ct == Get(req[r].cookies[Identifier])[1].ct
              IN  /\ req[r].decrypts = 1
                  /\ req[r].at < ct.exp =>
                        req[r].result = [k |-> "ok", v |-> ct.body]
\* C25 witness: the browser's get returned the data of the set before it
C25_Witness ==
    \E r \in Reqs :
        /\ Finished(r, "transaction", "get")
        /\ req[r].from = "browser"
        /\ req[r].result.k = "ok"
        /\ req[r].result.v.state = "tx-2"
\* C25 witness: a delete on a request that carried the cookie, and the
\* browser's cookie is gone
C25_WitnessDelete ==
    \E r \in Reqs :
        /\ Finished(r, "transaction", "delete")
        /\ IsSome(req[r].cookies[Identifier])
        /\ req[r].pc = "done"
        /\ jar[Identifier] = Undefined
\* C25 witness: a get on a request without the cookie
C25_WitnessAbsent ==
    \E r \in Reqs :
        /\ Finished(r, "transaction", "get")
        /\ req[r].cookies[Identifier] = Undefined
        /\ req[r].result.k = "none"

(***************************************************************************)
(* The stores called outside HonoCookieHandler.setContext, or, for the     *)
(* context-taking variants, without the context argument.  An outcome      *)
(* tells how the call ended and what it did before: encryptions, cookie    *)
(* operations that reached hono, calls of the external store.              *)
(***************************************************************************)
\* HonoCookieHandler.getContext without a stored context:
\* throw new Error("No context available. Did you call setContext?")
NoContextAvailable == [k |-> "error", e |-> "Error"]
\* throw new MissingContextError()
MissingContext == [k |-> "error", e |-> "MissingContextError"]
\* how far a call got
Outcome(result, encrypts) ==
    [result |-> result, encrypts |-> encrypts, cookieOps |-> 0, storeCalls |-> 0]
\* StatelessStateStore: set encrypts, checks the chunk count and fails in
\* its first setCookie; get fails in its first getCookie, delete in its
\* first deleteCookie
StatelessWithoutContext(op, cfg, stateData, atMs) ==
    IF op = "set"
    THEN LET maxAge == calculateMaxAge(cfg, stateData.createdAt, atMs)
             expiration == StatelessExpiration(atMs, maxAge)
             ct == encrypt(Identifier, stateData, expiration, 0)
         IN  IF ExceedsLimit(ChunkCount(ct))
             THEN Outcome([k |-> "error", e |-> "size"], 1)
             ELSE Outcome(NoContextAvailable, 1)
    ELSE Outcome(NoContextAvailable, 0)
\* StatefulStateStore: set, get and delete start with getSessionId, which
\* fails in getCookie
StatefulWithoutContext(op) == Outcome(NoContextAvailable, 0)
\* CookieTransactionStore: set encrypts and fails in setCookie; get fails in
\* getCookie, delete in deleteCookie
TransactionWithoutContext(op) ==
    IF op = "set" THEN Outcome(NoContextAvailable, 1)
    ELSE Outcome(NoContextAvailable, 0)
\* the context-taking variants: if (!c) throw new MissingContextError()
ContextVariantWithoutContext(op) == Outcome(MissingContext, 0)

\* the variants of the stores whose source the repository holds
StoreVariants ==
    {[store |-> "stateless", variant |-> "handler"],
     [store |-> "stateful", variant |-> "handler"],
     [store |-> "transaction", variant |-> "handler"],
     [store |-> "stateless", variant |-> "context"],
     [store |-> "transaction", variant |-> "context"]}
InitNoContext ==
    /\ nowMs = 0
    /\ config \in Configs
    /\ jar = NoCookies
    /\ req = [r \in Reqs |-> IdleReq]
    /\ written = Undefined
    /\ extStore = [i \in Ids |-> Undefined]
    /\ idCount = 0
    /\ captured = Undefined
    /\ retired = {}
    /\ \E sv \in StoreVariants, op \in {"set", "get", "delete"}, p \in Payloads :
          /\ op # "set" => p.size = ChunkSize
          /\ calc = [f |-> "input", store |-> sv.store, variant |-> sv.variant,
                     op |-> op, payload |-> p, out |-> Undefined]
\* the call is made
CallWithoutContext ==
    /\ calc.f = "input"
    /\ calc' = [calc EXCEPT
                  !.f = "called",
                  !.out = Some(
                     IF calc.variant = "context"
                     THEN ContextVariantWithoutContext(calc.op)
                     ELSE IF calc.store = "stateless"
                     THEN StatelessWithoutContext(calc.op, config,
                                                  calc.payload, nowMs)
                     ELSE IF calc.store = "stateful"
                     THEN StatefulWithoutContext(calc.op)
                     ELSE TransactionWithoutContext(calc.op))]
    /\ UNCHANGED << nowMs, config, jar, req, written, stateful >>

NextNoContext ==
    \/ HeaderTick
    \/ CallWithoutContext

SpecNoContext == InitNoContext /\ [][NextNoContext]_vars

\* the call without a context has been made
Called == calc.f = "called"
\* C26: every set, get and delete of the stateless, the stateful and the
\* transaction store called without a request context fails with
\* MissingContextError, having performed no encryption, no cookie operation
\* and no call of the external store.  The stores built on the cookie
\* handler break it: they fail with a plain Error, and the set of the
\* stateless and of the transaction store encrypts first.
C26_MissingContext ==
    Called =>
       /\ Get(calc.out).result = [k |-> "error", e |-> "MissingContextError"]
       /\ Get(calc.out).encrypts = 0
       /\ Get(calc.out).cookieOps = 0
       /\ Get(calc.out).storeCalls = 0
\* the part every variant keeps: the call fails, and no cookie operation
\* and no call of the external store happens before
C26_FailsWithoutEffect ==
    Called =>
       /\ Get(calc.out).result.k = "error"
       /\ Get(calc.out).cookieOps = 0
       /\ Get(calc.out).storeCalls = 0
\* C26 witness: the stateless store built on the cookie handler, set called
\* outside setContext: it encrypted and failed with a plain Error
C26_Witness ==
    /\ Called
    /\ calc.store = "stateless" /\ calc.variant = "handler" /\ calc.op = "set"
    /\ Get(calc.out).result = [k |-> "error", e |-> "Error"]
    /\ Get(calc.out).encrypts = 1

(***************************************************************************)
(* get on cookie data decrypt rejects.  A client presents the cookies of a *)
(* session or transaction saved at time 0, intact at any later time, cut   *)
(* short, or a ciphertext bound to another identifier; the external store  *)
(* holds the session the handle cookie names.                              *)
(***************************************************************************)
\* the session id of the stored session
StoredId == 1
\* the cookies a save at time 0 left, per store
SavedCookies(store, cfg, p) ==
    IF store = "stateless"
    THEN CookiesWritten(StatelessSet(cfg, Identifier, p, 0, 0).resp)
    ELSE IF store = "stateful"
    THEN LET maxAge == calculateMaxAge(cfg, p.createdAt, 0)
             ct == encrypt(Identifier, [id |-> StoredId],
                           StatefulExpiration(0, maxAge), 0)
         IN  CookiesWritten(HandleCookie(Identifier, ct, maxAge))
    ELSE CookiesWritten(TransactionSet(Identifier, [state |-> "tx-1", size |-> 2],
                                       0, 0).resp)
\* the name of the first cookie a store reads
FirstCookie(store) ==
    IF store = "stateless" THEN ChunkName(Identifier, 0) ELSE Identifier
\* what the client presents
Presented(store, kind, cfg, p) ==
    LET saved == SavedCookies(store, cfg, p)
        n == FirstCookie(store)
    IN  IF kind = "intact" THEN saved
        ELSE IF kind = "tampered"
        THEN [saved EXCEPT ![n] = Some(Truncated(Get(saved[n])))]
        ELSE [NoCookies EXCEPT ![n] = Some(Forged)]

InitBadCookie ==
    /\ nowMs = 0
    /\ config \in Configs
    /\ jar = NoCookies
    /\ req = [r \in Reqs |-> IdleReq]
    /\ written = Undefined
    /\ extStore = [i \in Ids |->
                     IF i = StoredId
                     THEN Some([createdAt |-> 0, size |-> ChunkSize])
                     ELSE Undefined]
    /\ idCount = 1
    /\ captured = Undefined
    /\ retired = {}
    /\ calc = NoCalc

\* a get reaches one of the stores with the cookies a client presents
BadCookieRequest(r) ==
    /\ Quiet
    /\ \E store \in {"stateless", "stateful", "transaction"} :
       \E kind \in {"intact", "tampered", "otherIdentifier"} :
       \E p \in {d \in Payloads : d.size \in {ChunkSize, 7000}} :
          req' = [req EXCEPT ![r] =
                    [IdleReq EXCEPT
                       !.pc = "run", !.store = store, !.op = "get",
                       !.from = "client",
                       !.cookies = Presented(store, kind, config, p)]]
    /\ UNCHANGED << nowMs, config, calc, jar, written, stateful >>

NextBadCookie ==
    \/ TransactionTick
    \/ TransactionHour
    \/ \E r \in {1} :
          \/ BadCookieRequest(r)
          \/ StatelessGetStep(r)
          \/ TransactionGetStep(r)
          \/ SfGetStart(r)
          \/ StoreComplete(r)
          \/ SfGetFinish(r)
          \/ Respond(r)

SpecBadCookie == InitBadCookie /\ [][NextBadCookie]_vars

\* the cookie data the get of request r hands to decrypt
DataRead(r) ==
    IF req[r].store = "stateless" THEN req[r].assembled
    ELSE IF IsSome(req[r].cookies[Identifier])
    THEN Get(req[r].cookies[Identifier]) ELSE << >>
\* the data is no whole ciphertext
IsTampered(data) ==
    \/ Len(data) # 1
    \/ data[1].lo # 0
    \/ data[1].hi # (IF "size" \in DOMAIN data[1].ct.body
                     THEN data[1].ct.body.size ELSE 1)
\* the data is a whole ciphertext bound to another identifier
IsOtherIdentifier(data) == ~IsTampered(data) /\ data[1].ct.ident # Identifier
\* the data is a whole ciphertext of the identifier whose envelope has
\* expired at time atMs
IsExpired(data, atMs) ==
    /\ ~IsTampered(data)
    /\ data[1].ct.ident = Identifier
    /\ data[1].ct.exp <= (atMs \div 1000) * 1000
\* request r is a get whose cookie data decrypt rejects
DecryptFailureCase(r) ==
    /\ req[r].op = "get"
    /\ req[r].pc \in {"respond", "done"}
    /\ DataRead(r) # << >>
    /\ \/ IsTampered(DataRead(r))
       \/ IsOtherIdentifier(DataRead(r))
       \/ IsExpired(DataRead(r), req[r].at)
\* C27: a get of the stateless, the stateful or the transaction store whose
\* cookie data decrypt rejects, because it was altered, because the envelope
\* has expired or because the ciphertext is bound to another identifier,
\* returns no payload: the failure of decrypt is what the caller gets, the
\* external store is not called and keeps the session, and the response
\* carries no Set-Cookie header.
C27_DecryptFailure ==
    \A r \in Reqs :
        DecryptFailureCase(r) =>
           /\ req[r].result = [k |-> "error", e |-> "decrypt"]
           /\ req[r].decrypts = 1
           /\ req[r].calls = << >>
           /\ req[r].pend = << >>
           /\ req[r].resp = << >>
           /\ IsSome(extStore[StoredId])
\* C27 witness: the stateful get, on a handle whose envelope has expired
\* and which names a session the external store holds
C27_Witness ==
    \E r \in Reqs :
        /\ DecryptFailureCase(r)
        /\ req[r].store = "stateful"
        /\ IsExpired(DataRead(r), req[r].at)
        /\ DataRead(r)[1].ct.body.id = StoredId
        /\ req[r].result.k = "error"
\* C27 witness: the stateless get, on chunks of which the first was cut
C27_WitnessTampered ==
    \E r \in Reqs :
        /\ DecryptFailureCase(r)
        /\ req[r].store = "stateless"
        /\ IsTampered(DataRead(r))
        /\ Len(DataRead(r)) = 2
\* C27 witness: the transaction get, on a ciphertext of another identifier
C27_WitnessOtherIdentifier ==
    \E r \in Reqs :
        /\ DecryptFailureCase(r)
        /\ req[r].store = "transaction"
        /\ IsOtherIdentifier(DataRead(r))
\* C27 witness: the transaction get, an hour after the save
C27_WitnessTransactionExpired ==
    \E r \in Reqs :
        /\ DecryptFailureCase(r)
        /\ req[r].store = "transaction"
        /\ IsExpired(DataRead(r), req[r].at)
\* the intact, unexpired cookie data is answered with the payload
C27_WitnessIntact ==
    \E r \in Reqs :
        /\ req[r].store = "stateful" /\ req[r].pc = "done"
        /\ req[r].result.k = "ok"

(***************************************************************************)
(* Stateful store: failures of the external store                          *)
(***************************************************************************)
\* a call of the external store made by request r has failed
StoreFailed(r) ==
    \E i \in 1..Len(req[r].calls) : req[r].calls[i].ev = "failed"
\* C28: a stateful set, get or delete calls each method of the external
\* store at most once.  Once a call of the external store has failed the
\* operation makes no further call and leaves no Set-Cookie header, and it
\* ends with the store's failure as its own: a set whose store.set or
\* store.delete failed issues no handle cookie.  (The model has one failure
\* of the external store; the result names it apart from the failure of
\* decrypt.)
C28_NoRetry ==
    \A r \in Reqs :
        (req[r].store = "stateful" /\ req[r].op \in {"set", "get", "delete"}) =>
           /\ \A m \in {"set", "get", "delete"} :
                 Cardinality(Events(r, m, {"issued"})) <= 1
           /\ \A i, j \in 1..Len(req[r].calls) :
                 (req[r].calls[i].ev = "failed" /\ i < j) =>
                    req[r].calls[j].ev # "issued"
           /\ StoreFailed(r) =>
                 /\ req[r].resp = << >>
                 /\ req[r].pend = << >>
                 /\ req[r].pc \in {"respond", "done"} =>
                       req[r].result = [k |-> "error", e |-> "store"]
\* C28 witness: a regenerating set whose store.delete failed: it ended with
\* the store's failure, called store.set never and left no cookie
C28_Witness ==
    \E r \in Reqs :
        /\ req[r].store = "stateful" /\ req[r].op = "set"
        /\ req[r].pc = "done"
        /\ Events(r, "delete", {"failed"}) # {}
        /\ Events(r, "set", AnyEv) = {}
        /\ req[r].result = [k |-> "error", e |-> "store"]
\* C28 witness: a set whose store.set failed
C28_WitnessSetFailed ==
    \E r \in Reqs :
        /\ req[r].store = "stateful" /\ req[r].op = "set"
        /\ req[r].pc = "done"
        /\ Events(r, "set", {"failed"}) # {}
        /\ req[r].resp = << >>
\* C28 witness: a get whose store.get failed
C28_WitnessGetFailed ==
    \E r \in Reqs :
        /\ req[r].store = "stateful" /\ req[r].op = "get"
        /\ req[r].pc = "done"
        /\ Events(r, "get", {"failed"}) # {}

(***************************************************************************)
(* Concurrent stateless sets: two requests of the browser are in flight at *)
(* once, each computed on the cookies the browser held when it was sent;   *)
(* the browser applies the responses whole, in either order.  The store is *)
(* either the one built on the cookie handler or the context-taking one.   *)
(***************************************************************************)
\* the Cookie header of a request as hono's raw header lists it: the cookies
\* the request carries, as name / value pairs
HeaderOf(cookies) ==
    LET names == << Identifier >> \o [j \in 1..(ChunkLimit + 1) |->
                                        ChunkName(Identifier, j - 1)]
        present == SelectSeq(names, LAMBDA n : IsSome(cookies[n]))
    IN  [j \in 1..Len(present) |->
           [name |-> present[j], val |-> Get(cookies[present[j]])]]
\* the payloads of the racing sets: 1 chunk, 3 chunks, 10 chunks
RacingPayloads == {p \in Payloads : p.size \in {ChunkSize, 7000,
                                                ChunkSize * ChunkLimit}}
InitConcurrent ==
    /\ nowMs = 0
    /\ config \in Configs
    /\ jar = NoCookies
    /\ req = [r \in Reqs |-> IdleReq]
    /\ written = Undefined
    /\ extStore = [i \in Ids |-> Undefined]
    /\ idCount = 0
    /\ captured = Undefined
    /\ retired = {}
    /\ calc \in [f : {"variant"}, variant : {"handler", "context"}]
\* the browser sends a set, whether or not another request is in flight
ConcurrentSetRequest(r) ==
    /\ req[r].pc = "idle"
    /\ \E p \in RacingPayloads :
          req' = [req EXCEPT ![r] =
                    [IdleReq EXCEPT !.pc = "run", !.store = "stateless",
                                    !.op = "set",
                                    !.cookies = CookieHeader(jar, nowMs),
                                    !.payload = Some(p)]]
    /\ UNCHANGED << nowMs, config, calc, jar, written, stateful >>
\* StatelessStateStore.set of the store built on the cookie handler
HandlerSetStep(r) ==
    /\ calc.variant = "handler"
    /\ req[r].pc = "run" /\ req[r].store = "stateless" /\ req[r].op = "set"
    /\ LET out == StatelessSet(config, Identifier, Get(req[r].payload),
                               nowMs, r)
       IN  req' = [req EXCEPT ![r].pc = "respond", ![r].at = nowMs,
                              ![r].maxAge = out.maxAge,
                              ![r].enc = out.enc, ![r].resp = out.resp,
                              ![r].result = out.result]
    /\ UNCHANGED << nowMs, config, calc, jar, written, stateful >>
\* StatelessStateStore.set of the context-taking store
ContextSetStep(r) ==
    /\ calc.variant = "context"
    /\ req[r].pc = "run" /\ req[r].store = "stateless" /\ req[r].op = "set"
    /\ LET stateData == Get(req[r].payload)
           maxAge == calculateMaxAge(config, stateData.createdAt, nowMs)
           out == ContextSet(config, Identifier, stateData,
                             HeaderOf(req[r].cookies), nowMs, r)
       IN  req' = [req EXCEPT ![r].pc = "respond", ![r].at = nowMs,
                              ![r].maxAge = maxAge,
                              ![r].enc = Some(out.resp[1].val[1].ct),
                              ![r].resp = out.resp,
                              ![r].result = out.result]
    /\ UNCHANGED << nowMs, config, calc, jar, written, stateful >>

NextConcurrent ==
    \/ Tick
    \/ \E r \in Reqs :
          \/ ConcurrentSetRequest(r)
          \/ HandlerSetStep(r)
          \/ ContextSetStep(r)
          \/ Respond(r)

SpecConcurrent == InitConcurrent /\ [][NextConcurrent]_vars

\* the string a get would assemble from the cookies the browser sends now
BrowserString == Reassemble(Identifier, CookieHeader(jar, nowMs))
\* the string of the set whose response the browser applied last is what
\* the browser's chunk cookies make, until they expire
LastWriteWins ==
    IsSome(written) =>
       LET last == Get(written)
           whole == << [ct |-> last.ct, lo |-> 0, hi |-> last.ct.body.size] >>
       IN  /\ BrowserString \in {<< >>, whole}
           /\ (nowMs = last.appliedAt /\ last.maxAge > 0) => BrowserString = whole
\* the two sets ran at once: each was computed before the other's response
\* was applied
Raced ==
    /\ \A r \in Reqs : req[r].pc = "done" /\ req[r].result = [k |-> "void"]
    /\ \A r \in Reqs : \A i \in 0..9 :
          req[r].cookies[ChunkName(Identifier, i)] = Undefined
\* C29: with two stateless sets of the same identifier in flight at once,
\* whatever their chunk counts and whichever response the browser applies
\* last, the browser's chunk cookies make exactly the encrypted string of
\* the set applied last, never a mixture.  Stated for both variants of the
\* store; the context-taking variant breaks it.
C29_LastWriteWins == LastWriteWins
\* the same for the store built on the cookie handler, which keeps it
C29_LastWriteWinsByName == calc.variant = "handler" => LastWriteWins
\* C29 witness: under the context-taking store a set of three chunks and a
\* set of one chunk raced, the one-chunk response came last, and the
\* browser holds chunk 0 of the one beside chunks 1 and 2 of the other
C29_Witness ==
    /\ calc.variant = "context"
    /\ Raced
    /\ Get(written).ct.body.size = ChunkSize
    /\ Len(BrowserString) = 2
    /\ BrowserString[1].ct = Get(written).ct
    /\ BrowserString[2].ct # Get(written).ct
\* C29 witness: under the store built on the cookie handler the same race
\* leaves the one-chunk string alone
C29_WitnessByName ==
    /\ calc.variant = "handler"
    /\ Raced
    /\ Get(written).ct.body.size = ChunkSize
    /\ nowMs = Get(written).appliedAt
    /\ \E r \in Reqs : Get(req[r].payload).size = 7000
    /\ BrowserString = << [ct |-> Get(written).ct, lo |-> 0, hi |-> ChunkSize] >>

(***************************************************************************)
(* Concurrent logins: two regenerating sets of the stateful store are in   *)
(* flight at once, both on the handle of the same old session.             *)
(***************************************************************************)
\* the id of the old session, given out before the ids generateId returns
\* from now on
OldId == 0
\* the handle cookie of the old session, as the set that saved it left it
OldHandle ==
    LET maxAge == calculateMaxAge(config, 0, 0)
    IN  HandleCookie(Identifier,
                     encrypt(Identifier, [id |-> OldId],
                             StatefulExpiration(0, maxAge), 0),
                     maxAge)
InitLogins ==
    /\ nowMs = 0
    /\ config \in Configs
    /\ jar = ApplyResponse(NoCookies, OldHandle, 0)
    /\ req = [r \in Reqs |-> IdleReq]
    /\ written = Undefined
    /\ extStore = [i \in {OldId} \cup Ids |->
                     IF i = OldId THEN Some([createdAt |-> 0, size |-> ChunkSize])
                     ELSE Undefined]
    /\ idCount = 0
    /\ captured = Undefined
    /\ retired = {}
    /\ calc = NoCalc
\* the browser sends a login's set, whether or not another is in flight
LoginRequest(r) ==
    /\ req[r].pc = "idle"
    /\ idCount + SetsInFlight < MaxIds
    /\ \E p \in StatefulPayloads :
          req' = [req EXCEPT ![r] =
                    [IdleReq EXCEPT
                       !.pc = "run", !.store = "stateful", !.op = "set",
                       !.payload = Some(p), !.regen = TRUE,
                       !.cookies = CookieHeader(jar, nowMs)]]
    /\ UNCHANGED << nowMs, config, calc, jar, written, stateful >>

NextLogins ==
    \E r \in Reqs :
       \/ LoginRequest(r)
       \/ SfSetStart(r)
       \/ SfSetAfterDelete(r)
       \/ SfSetFinish(r)
       \/ StoreComplete(r)
       \/ Respond(r)

SpecLogins == InitLogins /\ [][NextLogins]_vars

\* request r is a regenerating set on the handle of the old session
OnOldHandle(r) ==
    /\ req[r].store = "stateful" /\ req[r].op = "set" /\ req[r].regen
    /\ IsSome(req[r].cookies[Identifier])
    /\ Get(req[r].cookies[Identifier])[1].ct.body.id = OldId
\* both logins ran on the handle of the old session and both completed
BothCompleted ==
    \A r \in Reqs :
        /\ OnOldHandle(r)
        /\ req[r].pc \in {"respond", "done"}
        /\ req[r].result = [k |-> "void"]
\* C30: two regenerating sets of the stateful store that both carry the
\* handle of the old session id X and run at once end safely however their
\* steps interleave: no call ever saves a payload under X, and once both
\* have completed the external store holds nothing under X and holds each
\* login's payload under an id of its own, freshly generated and different
\* from X.
C30_ConcurrentLogins ==
    /\ \A r \in Reqs : \A i \in 1..Len(req[r].calls) :
          (OnOldHandle(r) /\ req[r].calls[i].m = "set") =>
             req[r].calls[i].id # OldId
    /\ BothCompleted =>
          /\ extStore[OldId] = Undefined
          /\ \A r \in Reqs :
                /\ IsSome(req[r].sid)
                /\ Get(req[r].sid) # OldId
                /\ Get(req[r].sid) \in Ids
                /\ req[r].minted = req[r].sid
                /\ extStore[Get(req[r].sid)] = req[r].payload
          /\ \A r1, r2 \in Reqs : r1 # r2 => req[r1].sid # req[r2].sid
\* C30 witness: both logins read the old handle before either had deleted
\* the old session, both deleted it, and both completed
C30_Witness ==
    /\ BothCompleted
    /\ \A r \in Reqs : Events(r, "delete", {"done"}) # {}
    /\ \A r \in Reqs : req[r].pc = "done"
    /\ Get(req[1].payload) # Get(req[2].payload)

\* ------------------------------------------------------------------------
\* The middleware handlers.  A handler run is held in calc: its inputs, its
\* position pc, the calls it has made so far (calls, in order) and its
\* result.  The session stores stay at rest.
\* ------------------------------------------------------------------------
StoresAtRest ==
    /\ nowMs = 0
    /\ config \in {c \in Configs : c.rolling}
    /\ jar = NoCookies
    /\ req = [r \in Reqs |-> IdleReq]
    /\ written = Undefined
    /\ extStore = [i \in Ids |-> Undefined]
    /\ idCount = 0
    /\ captured = Undefined
    /\ retired = {}
StoresUnchanged == UNCHANGED << nowMs, config, jar, req, written, stateful >>

\* what client.getSession settles with: a session, null or undefined (both
\* fail the test !session), or a rejection
AnySession == [user |-> "sub-123"]
SessionOutcomes ==
    {[k |-> "value", v |-> Some(AnySession), js |-> "object"],
     [k |-> "value", v |-> Undefined, js |-> "null"],
     [k |-> "value", v |-> Undefined, js |-> "undefined"],
     [k |-> "rejected", v |-> Undefined, js |-> "error"]}
\* what accepts() answers for the supported types and the default
AcceptsAnswers == {"text/html", "application/json"}
Behaviors == {Undefined, Some("error"), Some("login")}
AuthenticationRequired ==
    [k |-> "throw", status |-> 401, message |-> "Authentication required"]
SessionRejected == [k |-> "throw", status |-> 500, message |-> "getSession"]

\* shouldFail with the behavior argument left out of the third operand
ShouldFailIgnoringBehavior(acceptsHTML, behavior, errorOnRequiredAuth) ==
    \/ ~acceptsHTML
    \/ behavior = Some("error")
    \/ errorOnRequiredAuth
\* requiresAuth: shouldFail
ShouldFail(acceptsHTML, behavior, errorOnRequiredAuth) ==
    \/ ~acceptsHTML
    \/ behavior = Some("error")
    \/ (behavior = Undefined /\ errorOnRequiredAuth)

InitRequiresAuth ==
    /\ StoresAtRest
    /\ \E so \in SessionOutcomes, a \in AcceptsAnswers, b \in Behaviors,
          e \in BOOLEAN :
          calc = [f |-> "requiresAuth", pc |-> "start", settles |-> so,
                  accepts |-> a, behavior |-> b, errorOnRequiredAuth |-> e,
                  session |-> Undefined, calls |-> << >>,
                  result |-> [k |-> "pending"]]
\* const session = await client.getSession(c)
RequiresAuthGetSession ==
    /\ calc.f = "requiresAuth"
    /\ calc.pc = "start"
    /\ calc' = IF calc.settles.k = "rejected"
               THEN [calc EXCEPT !.pc = "done",
                                 !.calls = Append(@, "getSession"),
                                 !.result = SessionRejected]
               ELSE [calc EXCEPT !.pc = "session",
                                 !.calls = Append(@, "getSession"),
                                 !.session = calc.settles.v]
    /\ StoresUnchanged
\* the rest of the handler, up to the call it hands the request to
RequiresAuthDecide ==
    /\ calc.f = "requiresAuth"
    /\ calc.pc = "session"
    /\ calc' =
         IF IsSome(calc.session)
         THEN [calc EXCEPT !.pc = "done", !.calls = Append(@, "next"),
                           !.result = [k |-> "next"]]
         ELSE IF ShouldFail(calc.accepts = "text/html", calc.behavior,
                            calc.errorOnRequiredAuth)
         THEN [calc EXCEPT !.pc = "done", !.calls = Append(@, "accepts"),
                           !.result = AuthenticationRequired]
         ELSE [calc EXCEPT !.pc = "login",
                           !.calls = @ \o << "accepts", "login" >>]
    /\ StoresUnchanged
\* login()(c, next) answers with its redirect to the authorization URL
RequiresAuthLogin ==
    /\ calc.f = "requiresAuth"
    /\ calc.pc = "login"
    /\ calc' = [calc EXCEPT !.pc = "done",
                            !.calls = Append(@, "startInteractiveLogin"),
                            !.result = [k |-> "redirect", to |-> "authorize"]]
    /\ StoresUnchanged

NextRequiresAuth ==
    \/ RequiresAuthGetSession
    \/ RequiresAuthDecide
    \/ RequiresAuthLogin

SpecRequiresAuth == InitRequiresAuth /\ [][NextRequiresAuth]_vars

Has(calls, name) == \E i \in 1..Len(calls) : calls[i] = name
\* requiresAuth has got the answer of getSession and has finished
RequiresAuthDone ==
    /\ calc.f = "requiresAuth"
    /\ calc.pc = "done"
    /\ calc.settles.k = "value"
\* C31: requiresAuth, once getSession has answered.  With a session, next is
\* called and login is not.  Without one, the 401 "Authentication required"
\* is raised exactly when accepts() does not answer text/html, or behavior
\* is "error", or behavior is not given and errorOnRequiredAuth is true; in
\* the remaining case login is invoked and next is not called.
C31_RequiresAuth ==
    RequiresAuthDone =>
       IF IsSome(calc.settles.v)
       THEN /\ Has(calc.calls, "next")
            /\ ~Has(calc.calls, "login")
       ELSE /\ (calc.result = AuthenticationRequired) <=>
                  \/ calc.accepts # "text/html"
                  \/ calc.behavior = Some("error")
                  \/ (calc.behavior = Undefined /\ calc.errorOnRequiredAuth)
            /\ calc.result # AuthenticationRequired =>
                  /\ Has(calc.calls, "login")
                  /\ ~Has(calc.calls, "next")
            /\ calc.result = AuthenticationRequired =>
                  /\ ~Has(calc.calls, "login")
                  /\ ~Has(calc.calls, "next")
\* C31 witness: no session, text/html, behavior "login" given although
\* errorOnRequiredAuth is true: login was invoked
C31_Witness ==
    /\ RequiresAuthDone
    /\ calc.settles.v = Undefined
    /\ calc.accepts = "text/html"
    /\ calc.behavior = Some("login")
    /\ calc.errorOnRequiredAuth
    /\ Has(calc.calls, "login")
\* no session, text/html, no behavior, errorOnRequiredAuth true: the 401
C31_WitnessError ==
    /\ RequiresAuthDone
    /\ calc.settles.v = Undefined
    /\ calc.accepts = "text/html"
    /\ calc.behavior = Undefined
    /\ calc.errorOnRequiredAuth
    /\ calc.result = AuthenticationRequired
\* a session: next
C31_WitnessSession ==
    /\ RequiresAuthDone
    /\ IsSome(calc.settles.v)
    /\ calc.result = [k |-> "next"]

\* ------------------------------------------------------------------------
\* URLs.  A URL text is a string; new URL(text, base) is worked out on the
\* characters for http and https: scheme, authority (userinfo dropped), path.
\* ------------------------------------------------------------------------
\* the first position from `from` on where text holds the character ch, 0
\* when there is none
IndexOf(text, ch, from) ==
    LET hits == {i \in from..Len(text) : SubSeq(text, i, i) = ch}
    IN  IF hits = {} THEN 0 ELSE CHOOSE i \in hits : \A j \in hits : i <= j
LastIndexOf(text, ch) ==
    LET hits == {i \in 1..Len(text) : SubSeq(text, i, i) = ch}
    IN  IF hits = {} THEN 0 ELSE CHOOSE i \in hits : \A j \in hits : i >= j
Rest(text, from) == SubSeq(text, from, Len(text))
Schemes == {"https://", "http://"}
HasScheme(text) == \E sc \in Schemes : StartsWith(text, sc)
SchemeOf(text) == CHOOSE sc \in Schemes : StartsWith(text, sc)
\* an absolute http(s) URL: origin is scheme and host, the userinfo before
\* "@" is no part of it; no host is a TypeError (Undefined here)
ParseAbsolute(text) ==
    LET sc == SchemeOf(text)
        after == Rest(text, Len(sc) + 1)
        slash == IndexOf(after, "/", 1)
        authority == IF slash = 0 THEN after ELSE SubSeq(after, 1, slash - 1)
        host == Rest(authority, LastIndexOf(authority, "@") + 1)
        path == IF slash = 0 THEN "/" ELSE Rest(after, slash)
    IN  IF host = "" THEN Undefined
        ELSE Some([origin |-> sc \o host, path |-> path])
\* the directory of a path: up to and including its last slash
DirOf(path) == SubSeq(path, 1, LastIndexOf(path, "/"))
\* new URL(text, base) for an absolute base
NewURL(text, base) ==
    IF HasScheme(text) THEN ParseAbsolute(text)
    ELSE LET b == ParseAbsolute(base)
         IN  IF b = Undefined THEN Undefined
             ELSE IF StartsWith(text, "//")
             THEN ParseAbsolute(SubSeq(Get(b).origin, 1,
                                 IndexOf(Get(b).origin, ":", 1)) \o text)
             ELSE IF StartsWith(text, "/")
             THEN Some([origin |-> Get(b).origin, path |-> text])
             ELSE Some([origin |-> Get(b).origin,
                        path |-> DirOf(Get(b).path) \o text])
\* url.toString()
URLToString(url) == url.origin \o url.path
\* new URL(base).origin
OriginOf(base) == Get(ParseAbsolute(base)).origin

ensureNoLeadingSlash(value) ==
    IF value # "" /\ StartsWith(value, "/") THEN Rest(value, 2) ELSE value
ensureTrailingSlash(value) ==
    IF value # "" /\ SubSeq(value, Len(value), Len(value)) # "/"
    THEN value \o "/" ELSE value
createRouteUrl(url, base) ==
    NewURL(ensureNoLeadingSlash(url), ensureTrailingSlash(base))
\* toSafeRedirect with the origin test left out
toSafeRedirectAnyOrigin(dangerousRedirect, safeBaseUrl) ==
    LET url == createRouteUrl(dangerousRedirect, safeBaseUrl)
    IN  IF url = Undefined THEN Undefined ELSE Some(URLToString(Get(url)))
\* toSafeRedirect: the resolved URL when it has the origin of safeBaseUrl,
\* undefined otherwise
toSafeRedirect(dangerousRedirect, safeBaseUrl) ==
    LET url == createRouteUrl(dangerousRedirect, safeBaseUrl)
    IN  IF url = Undefined THEN Undefined
        ELSE IF Get(url).origin = OriginOf(safeBaseUrl)
        THEN Some(URLToString(Get(url)))
        ELSE Undefined

BaseURLs == {"https://app.example.com", "https://app.example.com/base"}
SameOriginRedirects == {"/home", "home", "//home", "https://app.example.com/x"}
ForeignRedirects ==
    {"https://evil.example/x", "///evil.example/x",
     "http://app.example.com/x", "https://app.example.com@evil.example/x",
     "https://app.example.com.evil.example/x"}
Redirects == SameOriginRedirects \cup ForeignRedirects \cup {"https://"}
\* the URL has the origin of the base
SameOrigin(text, base) ==
    /\ HasScheme(text)
    /\ ParseAbsolute(text) # Undefined
    /\ Get(ParseAbsolute(text)).origin = OriginOf(base)

\* ------------------------------------------------------------------------
\* logout
\* ------------------------------------------------------------------------
IdpLogoutUrl == "https://idp.example/v2/logout"
\* what an awaited call of the client or of resumeSilentLogin settles with
Settlements == {"resolved", "rejected"}
Rejected(what) == [k |-> "throw", status |-> 500, message |-> what]
Redirect(to) == [k |-> "redirect", to |-> to]
\* redirectAfterLogout / redirectAfterLogin as given to a handler: absent,
\* the empty string, or a text
GivenRedirects == {Undefined, Some("")} \cup
                  {Some(t) : t \in {"/home", "home", "https://evil.example/x",
                                    "///evil.example/x"}}
\* logout: returnTo
LogoutReturnTo(redirectAfterLogout, baseURL) ==
    LET safe == IF redirectAfterLogout # Undefined
                   /\ Get(redirectAfterLogout) # ""
                THEN toSafeRedirect(Get(redirectAfterLogout), baseURL)
                ELSE Undefined
    IN  IF safe # Undefined THEN Get(safe) ELSE baseURL
\* the final redirect with the test on idpLogout turned around
LogoutTargetReversed(idpLogout, returnTo, logoutUrl) ==
    IF idpLogout THEN returnTo ELSE logoutUrl
\* logout: the final redirect
LogoutTarget(idpLogout, returnTo, logoutUrl) ==
    IF ~idpLogout THEN returnTo ELSE logoutUrl

InitLogout ==
    /\ StoresAtRest
    /\ \E so \in SessionOutcomes, g \in GivenRedirects, b \in BaseURLs,
          idp \in BOOLEAN, lo \in Settlements, rs \in Settlements :
          /\ so.js \in {"object", "null", "error"}
          /\ so.js # "object" => (lo = "resolved" /\ rs = "resolved")
          /\ lo = "rejected" => rs = "resolved"
          /\ calc = [f |-> "logout", pc |-> "start", settles |-> so,
                     redirectAfterLogout |-> g, baseURL |-> b,
                     idpLogout |-> idp, logoutSettles |-> lo,
                     resumeSettles |-> rs, session |-> Undefined,
                     returnTo |-> Undefined, logoutArg |-> Undefined,
                     logoutUrl |-> Undefined, calls |-> << >>,
                     result |-> [k |-> "pending"]]
\* getClient, await client.getSession, returnTo, and the redirect when
\* there is no session
LogoutGetSession ==
    /\ calc.f = "logout"
    /\ calc.pc = "start"
    /\ LET returnTo == LogoutReturnTo(calc.redirectAfterLogout, calc.baseURL)
       IN calc' =
            IF calc.settles.k = "rejected"
            THEN [calc EXCEPT !.pc = "done",
                              !.calls = Append(@, "getSession"),
                              !.result = Rejected("getSession")]
            ELSE IF ~IsSome(calc.settles.v)
            THEN [calc EXCEPT !.pc = "done",
                              !.returnTo = Some(returnTo),
                              !.calls = @ \o << "getSession", "redirect" >>,
                              !.result = Redirect(returnTo)]
            ELSE [calc EXCEPT !.pc = "logout",
                              !.session = calc.settles.v,
                              !.returnTo = Some(returnTo),
                              !.calls = Append(@, "getSession")]
    /\ StoresUnchanged
\* const logoutUrl = await client.logout({ returnTo }, c)
LogoutClientLogout ==
    /\ calc.f = "logout"
    /\ calc.pc = "logout"
    /\ calc' =
         IF calc.logoutSettles = "rejected"
         THEN [calc EXCEPT !.pc = "done", !.logoutArg = calc.returnTo,
                           !.calls = Append(@, "logout"),
                           !.result = Rejected("logout")]
         ELSE [calc EXCEPT !.pc = "resume", !.logoutArg = calc.returnTo,
                           !.logoutUrl = Some(IdpLogoutUrl),
                           !.calls = Append(@, "logout")]
    /\ StoresUnchanged
\* await resumeSilentLogin()(c, next)
LogoutResume ==
    /\ calc.f = "logout"
    /\ calc.pc = "resume"
    /\ calc' =
         IF calc.resumeSettles = "rejected"
         THEN [calc EXCEPT !.pc = "done",
                           !.calls = Append(@, "resumeSilentLogin"),
                           !.result = Rejected("resumeSilentLogin")]
         ELSE [calc EXCEPT !.pc = "redirect",
                           !.calls = Append(@, "resumeSilentLogin")]
    /\ StoresUnchanged
\* the redirect after the session is gone
LogoutRedirect ==
    /\ calc.f = "logout"
    /\ calc.pc = "redirect"
    /\ calc' = [calc EXCEPT
                  !.pc = "done",
                  !.calls = Append(@, "redirect"),
                  !.result = Redirect(LogoutTarget(calc.idpLogout,
                                                   Get(calc.returnTo),
                                                   Get(calc.logoutUrl)))]
    /\ StoresUnchanged

NextLogout ==
    \/ LogoutGetSession
    \/ LogoutClientLogout
    \/ LogoutResume
    \/ LogoutRedirect

SpecLogout == InitLogout /\ [][NextLogout]_vars

\* logout has finished and none of the calls it awaited has rejected
LogoutDone ==
    /\ calc.f = "logout"
    /\ calc.pc = "done"
    /\ calc.result.k = "redirect"
\* the returnTo the handler is to use: the redirectAfterLogout resolved
\* against baseURL when it stays on its origin, baseURL otherwise
ExpectedReturnTo ==
    IF /\ calc.redirectAfterLogout \notin {Undefined, Some("")}
       /\ toSafeRedirect(Get(calc.redirectAfterLogout), calc.baseURL)
             # Undefined
    THEN Get(toSafeRedirect(Get(calc.redirectAfterLogout), calc.baseURL))
    ELSE calc.baseURL
\* C32: logout, when none of the awaited calls rejects.  Without a session
\* it redirects to returnTo and never calls client.logout.  With a session
\* it calls client.logout({returnTo}), then resumeSilentLogin, then issues
\* exactly one redirect: to the IdP logout URL when idpLogout is set, to
\* returnTo otherwise.  returnTo is always on the origin of baseURL.
C32_Logout ==
    LogoutDone =>
       /\ SameOrigin(ExpectedReturnTo, calc.baseURL)
       /\ IF ~IsSome(calc.settles.v)
          THEN /\ calc.calls = << "getSession", "redirect" >>
               /\ calc.result = Redirect(ExpectedReturnTo)
          ELSE /\ calc.calls = << "getSession", "logout",
                                  "resumeSilentLogin", "redirect" >>
               /\ calc.logoutArg = Some(ExpectedReturnTo)
               /\ calc.result.to = IdpLogoutUrl <=> calc.idpLogout
               /\ ~calc.idpLogout => calc.result.to = ExpectedReturnTo
\* C32 witness: a session, idpLogout set, a redirectAfterLogout on the
\* origin: the redirect goes to the IdP after logout and resumeSilentLogin
C32_Witness ==
    /\ LogoutDone
    /\ IsSome(calc.settles.v)
    /\ calc.idpLogout
    /\ calc.redirectAfterLogout = Some("/home")
    /\ calc.logoutArg = Some("https://app.example.com/base/home")
    /\ calc.result.to = IdpLogoutUrl
\* no session and a foreign redirectAfterLogout: the redirect is baseURL
C32_WitnessNoSession ==
    /\ LogoutDone
    /\ ~IsSome(calc.settles.v)
    /\ calc.redirectAfterLogout = Some("https://evil.example/x")
    /\ calc.result.to = calc.baseURL
    /\ ~Has(calc.calls, "logout")
\* a session, idpLogout not set: the redirect is returnTo
C32_WitnessLocal ==
    /\ LogoutDone
    /\ IsSome(calc.settles.v)
    /\ ~calc.idpLogout
    /\ calc.result.to = ExpectedReturnTo

\* ------------------------------------------------------------------------
\* callback
\* ------------------------------------------------------------------------
\* params.redirectAfterLogin of callback: absent, false, or a text
CallbackRedirects ==
    {[k |-> "absent", v |-> ""], [k |-> "false", v |-> ""],
     [k |-> "text", v |-> ""], [k |-> "text", v |-> "/home"],
     [k |-> "text", v |-> "https://evil.example/x"]}
\* what completeInteractiveLogin settles with: an appState with or without
\* a returnTo, or a rejection
CompleteOutcomes ==
    {[k |-> "resolved", returnTo |-> Some("/dashboard")],
     [k |-> "resolved", returnTo |-> Undefined],
     [k |-> "rejected", returnTo |-> Undefined]}
\* callback: finalURL
FinalURL(redirectAfterLogin, returnTo, baseURL) ==
    LET safe == IF redirectAfterLogin.k = "text" /\ redirectAfterLogin.v # ""
                THEN toSafeRedirect(redirectAfterLogin.v, baseURL)
                ELSE Undefined
    IN  IF safe # Undefined THEN Get(safe)
        ELSE IF returnTo # Undefined THEN Get(returnTo)
        ELSE baseURL

InitCallback ==
    /\ StoresAtRest
    /\ \E g \in CallbackRedirects, co \in CompleteOutcomes, b \in BaseURLs,
          rs \in Settlements, cs \in Settlements :
          /\ co.k = "rejected" => rs = "resolved"
          /\ (co.k = "resolved" /\ rs = "resolved") => cs = "resolved"
          /\ calc = [f |-> "callback", pc |-> "start",
                     redirectAfterLogin |-> g, baseURL |-> b,
                     completeSettles |-> co, resumeSettles |-> rs,
                     catchSettles |-> cs, err |-> Undefined,
                     calls |-> << >>, result |-> [k |-> "pending"]]
\* getClient and await client.completeInteractiveLogin(...): a rejection
\* goes to the catch block
CallbackComplete ==
    /\ calc.f = "callback"
    /\ calc.pc = "start"
    /\ calc' =
         IF calc.completeSettles.k = "rejected"
         THEN [calc EXCEPT !.pc = "catch",
                           !.calls = Append(@, "completeInteractiveLogin"),
                           !.err = Some(Rejected("completeInteractiveLogin"))]
         ELSE [calc EXCEPT !.pc = "resume",
                           !.calls = Append(@, "completeInteractiveLogin")]
    /\ StoresUnchanged
\* await resumeSilentLogin()(c, next) in the try block: its rejection goes
\* to the catch block too
CallbackResume ==
    /\ calc.f = "callback"
    /\ calc.pc = "resume"
    /\ calc' =
         IF calc.resumeSettles = "rejected"
         THEN [calc EXCEPT !.pc = "catch",
                           !.calls = Append(@, "resumeSilentLogin"),
                           !.err = Some(Rejected("resumeSilentLogin"))]
         ELSE [calc EXCEPT !.pc = "finish",
                           !.calls = Append(@, "resumeSilentLogin")]
    /\ StoresUnchanged
\* return next() when redirectAfterLogin is false, the redirect to finalURL
\* otherwise
CallbackFinish ==
    /\ calc.f = "callback"
    /\ calc.pc = "finish"
    /\ calc' =
         IF calc.redirectAfterLogin.k = "false"
         THEN [calc EXCEPT !.pc = "done", !.calls = Append(@, "next"),
                           !.result = [k |-> "next"]]
         ELSE [calc EXCEPT
                 !.pc = "done", !.calls = Append(@, "redirect"),
                 !.result = Redirect(FinalURL(calc.redirectAfterLogin,
                                              calc.completeSettles.returnTo,
                                              calc.baseURL))]
    /\ StoresUnchanged
\* the catch block without its call of resumeSilentLogin
CallbackCatchNoResume ==
    /\ calc.f = "callback"
    /\ calc.pc = "catch"
    /\ calc' = [calc EXCEPT !.pc = "done", !.result = Get(calc.err)]
    /\ StoresUnchanged
\* catch (err) { await resumeSilentLogin()(c, next); throw err; }
CallbackCatch ==
    /\ calc.f = "callback"
    /\ calc.pc = "catch"
    /\ calc' =
         IF calc.catchSettles = "rejected"
         THEN [calc EXCEPT !.pc = "done",
                           !.calls = Append(@, "resumeSilentLogin"),
                           !.result = Rejected("resumeSilentLogin")]
         ELSE [calc EXCEPT !.pc = "done",
                           !.calls = Append(@, "resumeSilentLogin"),
                           !.result = Get(calc.err)]
    /\ StoresUnchanged

NextCallback ==
    \/ CallbackComplete
    \/ CallbackResume
    \/ CallbackFinish
    \/ CallbackCatch

SpecCallback == InitCallback /\ [][NextCallback]_vars

\* the positions of a call in the calls made
Positions(calls, name) == {i \in 1..Len(calls) : calls[i] = name}
\* the callback request has finished, and resumeSilentLogin itself did not
\* reject
CallbackDone ==
    /\ calc.f = "callback"
    /\ calc.pc = "done"
    /\ calc.resumeSettles = "resolved"
    /\ calc.catchSettles = "resolved"
C33_WitnessSuccess ==
    /\ CallbackDone
    /\ calc.completeSettles.k = "resolved"
    /\ calc.calls = << "completeInteractiveLogin", "resumeSilentLogin",
                       "redirect" >>
\* outside C33: resumeSilentLogin rejects in the try block and the catch
\* block invokes it a second time
ResumeRejectedOnSuccess ==
    /\ calc.f = "callback"
    /\ calc.pc = "done"
    /\ calc.completeSettles.k = "resolved"
    /\ calc.resumeSettles = "rejected"
    /\ Cardinality(Positions(calc.calls, "resumeSilentLogin")) = 2

\* ------------------------------------------------------------------------
\* login
\* ------------------------------------------------------------------------
LoginRoute == "/login"
RequestPaths == {LoginRoute, "/private"}
RequestOrigins == {"https://app.example.com", "http://internal:3000"}
ReturnToQueries == {Undefined, Some("/after"), Some("https://evil.example/x")}
LoginRedirects == {Undefined} \cup {Some(t) : t \in Redirects \cup {""}}
AuthorizationUrl == "https://idp.example/authorize"
\* login: potentialReturnTo
PotentialReturnTo(redirectAfterLogin, method, path, url, returnToQuery) ==
    IF redirectAfterLogin # Undefined THEN Get(redirectAfterLogin)
    ELSE IF method = "GET" /\ path # LoginRoute THEN url
    ELSE IF returnToQuery # Undefined THEN Get(returnToQuery)
    ELSE "/"

InitLogin ==
    /\ StoresAtRest
    /\ \E g \in LoginRedirects, me \in {"GET", "POST"}, pa \in RequestPaths,
          o \in RequestOrigins, q \in ReturnToQueries, b \in BaseURLs,
          st \in Settlements :
          calc = [f |-> "login", pc |-> "start", redirectAfterLogin |-> g,
                  method |-> me, path |-> pa, url |-> o \o pa,
                  returnToQuery |-> q, baseURL |-> b, startSettles |-> st,
                  potentialReturnTo |-> Undefined, appState |-> Undefined,
                  calls |-> << >>, result |-> [k |-> "pending"]]
\* up to the call client.startInteractiveLogin({appState: {returnTo}, ...})
LoginStart ==
    /\ calc.f = "login"
    /\ calc.pc = "start"
    /\ LET potentialReturnTo ==
              PotentialReturnTo(calc.redirectAfterLogin, calc.method,
                                calc.path, calc.url, calc.returnToQuery)
           returnTo == toSafeRedirect(potentialReturnTo, calc.baseURL)
       IN  calc' = [calc EXCEPT
                      !.pc = "await",
                      !.potentialReturnTo = Some(potentialReturnTo),
                      !.appState = Some([returnTo |-> returnTo]),
                      !.calls = Append(@, "startInteractiveLogin")]
    /\ StoresUnchanged
\* startInteractiveLogin settles: the redirect to the authorization URL
LoginRedirect ==
    /\ calc.f = "login"
    /\ calc.pc = "await"
    /\ calc' =
         IF calc.startSettles = "rejected"
         THEN [calc EXCEPT !.pc = "done",
                           !.result = Rejected("startInteractiveLogin")]
         ELSE [calc EXCEPT !.pc = "done", !.calls = Append(@, "redirect"),
                           !.result = Redirect(AuthorizationUrl)]
    /\ StoresUnchanged

NextLogin ==
    \/ LoginStart
    \/ LoginRedirect

SpecLogin == InitLogin /\ [][NextLogin]_vars

\* login has called startInteractiveLogin
LoginCalled == calc.f = "login" /\ Has(calc.calls, "startInteractiveLogin")
\* the potential return URL points to another origin than baseURL
PointsElsewhere ==
    \/ Get(calc.potentialReturnTo) \in ForeignRedirects
    \/ /\ HasScheme(Get(calc.potentialReturnTo))
       /\ ParseAbsolute(Get(calc.potentialReturnTo)) # Undefined
       /\ ~SameOrigin(Get(calc.potentialReturnTo), calc.baseURL)
\* the returnTo login handed over in appState
HandedReturnTo == Get(calc.appState).returnTo
\* C34: the returnTo login stores in appState is always "/" or a URL on the
\* origin of baseURL, and a redirectAfterLogin (or return_to, or request
\* URL) that points to another origin is replaced by "/".  The code breaks
\* the second half, and with it the first: it stores undefined.
C34_SafeReturnTo ==
    LoginCalled =>
       /\ HandedReturnTo # Undefined
       /\ \/ Get(HandedReturnTo) = "/"
          \/ SameOrigin(Get(HandedReturnTo), calc.baseURL)
       /\ PointsElsewhere => HandedReturnTo = Some("/")
\* the part the code keeps: what login hands over is never on a foreign
\* origin; a target that points elsewhere is dropped (undefined), as is one
\* that is no URL
C34_NeverForeign ==
    LoginCalled =>
       /\ HandedReturnTo # Undefined =>
             SameOrigin(Get(HandedReturnTo), calc.baseURL)
       /\ PointsElsewhere => HandedReturnTo = Undefined
\* C34 witness: redirectAfterLogin on a foreign origin: appState.returnTo
\* is undefined, not "/"
C34_Witness ==
    /\ LoginCalled
    /\ calc.redirectAfterLogin = Some("https://evil.example/x")
    /\ HandedReturnTo = Undefined
\* a same-origin redirectAfterLogin is handed over as an absolute URL
C34_WitnessSameOrigin ==
    /\ LoginCalled
    /\ calc.redirectAfterLogin = Some("/home")
    /\ calc.baseURL = "https://app.example.com"
    /\ HandedReturnTo = Some("https://app.example.com/home")

\* ------------------------------------------------------------------------
\* The request context of the cookie handler.  Two requests run through the
\* one handler instance; each is entered by setContext and then runs a store
\* operation, a sequence of awaited calls and cookie calls.  calc holds the
\* store AsyncLocalStorage keeps for each request's chain of continuations
\* (bound), the context handed to the latest run (last), each request's
\* operation (prog) and position (at), and the cookie calls made (io).
\* ------------------------------------------------------------------------
CookieCalls == {"getCookie", "setCookie", "deleteCookie"}
StatelessSetProgram == << "encrypt", "setCookie", "deleteCookie" >>
StatelessGetProgram == << "getCookie", "decrypt" >>
StatefulSetProgram == << "getCookie", "decrypt", "store.delete", "encrypt",
                         "store.set", "setCookie" >>
StatefulGetProgram == << "getCookie", "decrypt", "store.get",
                         "deleteCookie" >>
Programs == {StatelessSetProgram, StatelessGetProgram, StatefulSetProgram,
             StatefulGetProgram}
\* one variable shared by all requests instead of a store per chain
getStoreShared(r) == calc.last
\* localStore.getStore() in a continuation of request r: the context its
\* chain was started with by localStore.run
getStore(r) == calc.bound[r]

InitIsolation ==
    /\ StoresAtRest
    /\ \E pr \in [Reqs -> Programs] :
          calc = [f |-> "isolation", prog |-> pr, at |-> [r \in Reqs |-> 0],
                  bound |-> [r \in Reqs |-> Undefined], last |-> Undefined,
                  io |-> << >>]
\* setHonoContext: HonoCookieHandler.setContext(c, next)
SetContext(r) ==
    /\ calc.f = "isolation"
    /\ calc.at[r] = 0
    /\ calc' = [calc EXCEPT !.at[r] = 1, !.bound[r] = Some(r),
                            !.last = Some(r)]
    /\ StoresUnchanged
\* the next call of the request's operation: an awaited call, at which the
\* other request may run, or a cookie call on the context getContext finds
HandlerStep(r) ==
    /\ calc.f = "isolation"
    /\ calc.at[r] \in 1..Len(calc.prog[r])
    /\ LET call == calc.prog[r][calc.at[r]]
       IN  calc' = [calc EXCEPT
                      !.at[r] = @ + 1,
                      !.io = IF call \in CookieCalls
                             THEN Append(@, [by |-> r, call |-> call,
                                             ctx |-> getStore(r)])
                             ELSE @]
    /\ StoresUnchanged

NextIsolation ==
    \E r \in Reqs :
       \/ SetContext(r)
       \/ HandlerStep(r)

SpecIsolation == InitIsolation /\ [][NextIsolation]_vars

\* C35: with two requests going through the same store and cookie handler,
\* their awaited steps interleaved in any way, every cookie read and write
\* made for a request is made on that request's own context.
C35_Isolation ==
    calc.f = "isolation" =>
       \A i \in 1..Len(calc.io) : calc.io[i].ctx = Some(calc.io[i].by)
\* C35 witness: request 1 read its cookie, request 2 was entered and made a
\* cookie call while request 1 awaited, then request 1 wrote its cookie
C35_Witness ==
    /\ calc.f = "isolation"
    /\ \E i, j, k \in 1..Len(calc.io) :
          /\ i < j /\ j < k
          /\ calc.io[i].by = 1 /\ calc.io[i].call = "getCookie"
          /\ calc.io[j].by = 2
          /\ calc.io[k].by = 1 /\ calc.io[k].call = "setCookie"
          /\ calc.io[k].ctx = Some(1)
    /\ calc.last = Some(2)

\* ------------------------------------------------------------------------
\* auth(): the client of one auth() instance.  calc holds the closure
\* variable client (set or not), every run of the initialization with the
\* request that made it and whether it threw (runs), each request's position
\* (at), and the requests that arrived while client was not set (early).
\* ------------------------------------------------------------------------
FirstRequests == {1, 2, 3}
InitAuth ==
    /\ StoresAtRest
    /\ calc = [f |-> "auth", client |-> FALSE, runs |-> << >>,
               at |-> [r \in FirstRequests |-> "idle"], early |-> {}]
\* the request reaches the middleware: setHonoContext has run and
\* oidcMiddleware is about to
Arrive(r) ==
    /\ calc.f = "auth"
    /\ calc.at[r] = "idle"
    /\ calc' = [calc EXCEPT
                  !.at[r] = "arrived",
                  !.early = IF calc.client THEN @ ELSE @ \cup {r}]
    /\ StoresUnchanged
\* the initialization with the assignment to client left out
EnsureClientForgets(r) ==
    /\ calc.f = "auth"
    /\ calc.at[r] = "arrived"
    /\ calc' = [calc EXCEPT !.at[r] = "routing",
                            !.runs = Append(@, [by |-> r, ok |-> TRUE])]
    /\ StoresUnchanged
\* if (!client) { ...; config = parseConfiguration(...); client =
\* initializeOidcClient(config) } and the two c.set: one piece of
\* synchronous code, no await in it, so no other request runs inside it.
\* Either call may throw, which the catch turns into the 500 answer.
EnsureClient(r) ==
    /\ calc.f = "auth"
    /\ calc.at[r] = "arrived"
    /\ IF calc.client
       THEN calc' = [calc EXCEPT !.at[r] = "routing"]
       ELSE \E ok \in BOOLEAN :
               calc' = [calc EXCEPT
                          !.at[r] = IF ok THEN "routing" ELSE "failed",
                          !.client = ok,
                          !.runs = Append(@, [by |-> r, ok |-> ok])]
    /\ StoresUnchanged
\* the route handler, requiresAuth or next() the request is handed to, and
\* its completion
Route(r) ==
    /\ calc.f = "auth"
    /\ calc.at[r] = "routing"
    /\ calc' = [calc EXCEPT !.at[r] = "done"]
    /\ StoresUnchanged

NextAuth ==
    \E r \in FirstRequests :
       \/ Arrive(r)
       \/ EnsureClient(r)
       \/ Route(r)

SpecAuth == InitAuth /\ [][NextAuth]_vars

\* the runs of the initialization that did not throw
GoodRuns == {i \in 1..Len(calc.runs) : calc.runs[i].ok}
\* two requests reached the middleware while client was not set, and both
\* are past the initialization block
TwoFirstRequests ==
    /\ calc.f = "auth"
    /\ \E r1, r2 \in calc.early :
          /\ r1 # r2
          /\ calc.at[r1] \in {"routing", "done"}
          /\ calc.at[r2] \in {"routing", "done"}
\* C36 as stated: two requests that reach the uninitialized middleware
\* concurrently both execute the initialization.  It is not so.
C36_BothInitialize ==
    TwoFirstRequests => Cardinality(GoodRuns) >= 2
\* C36, amended: however the requests interleave, the initialization of one
\* auth() instance completes at most once; it is run again only after a
\* run that threw, and never once client is set.
C36_InitOnce ==
    calc.f = "auth" =>
       /\ Cardinality(GoodRuns) <= 1
       /\ \A i \in GoodRuns : i = Len(calc.runs)
       /\ calc.client <=> GoodRuns # {}
\* C36 witness: two requests arrived before client was set and both went
\* through; the initialization ran once
C36_Witness ==
    /\ TwoFirstRequests
    /\ Len(calc.runs) = 1
    /\ \A r \in FirstRequests : calc.at[r] = "done"
    /\ calc.early = FirstRequests

\* ------------------------------------------------------------------------
\* A stateless set refused for its size
\* ------------------------------------------------------------------------
\* the stateless set of request r has failed with the size-limit error and
\* its response is about to reach the browser
RefusedSet(r) ==
    /\ req[r].store = "stateless"
    /\ req[r].op = "set"
    /\ req[r].pc = "respond"
    /\ req[r].result = [k |-> "error", e |-> "size"]
\* C37: a stateless set that fails with the size-limit error leaves no
\* Set-Cookie header, neither a value nor a deletion, and the browser's
\* cookies, those of the session stored before, are after its response
\* exactly what they were.
C37_RefusedSetIsAtomic ==
    [][\A r \in Reqs :
          (RefusedSet(r) /\ req'[r].pc = "done") =>
             /\ req[r].resp = << >>
             /\ jar' = jar
             /\ CookieHeader(jar', nowMs') = CookieHeader(jar, nowMs)
             /\ written' = written]_vars
\* C37 witness: the browser held the three chunks of an earlier set, sent
\* them with a set that was refused, and holds them still after the answer
C37_Witness ==
    \E r \in Reqs :
        /\ Finished(r, "stateless", "set")
        /\ req[r].pc = "done"
        /\ req[r].from = "browser"
        /\ req[r].result = [k |-> "error", e |-> "size"]
        /\ IsSome(written)
        /\ Needs(Get(written).ct) = 3
        /\ IsSome(req[r].cookies[ChunkName(Identifier, 2)])
        /\ \A i \in 0..2 :
              CookieHeader(jar, nowMs)[ChunkName(Identifier, i)] =
                req[r].cookies[ChunkName(Identifier, i)]

\* ------------------------------------------------------------------------
\* A regenerating set racing a set that keeps the id
\* ------------------------------------------------------------------------
\* the browser sends a set on the handle of the old session, regenerating
\* or not, whether or not another is in flight
SetOnOldHandle(r) ==
    /\ req[r].pc = "idle"
    /\ idCount + SetsInFlight < MaxIds
    /\ \E p \in StatefulPayloads, removeIfExists \in BOOLEAN :
          req' = [req EXCEPT ![r] =
                    [IdleReq EXCEPT
                       !.pc = "run", !.store = "stateful", !.op = "set",
                       !.payload = Some(p), !.regen = removeIfExists,
                       !.cookies = CookieHeader(jar, nowMs)]]
    /\ UNCHANGED << nowMs, config, calc, jar, written, stateful >>

NextRegenerate ==
    \E r \in Reqs :
       \/ SetOnOldHandle(r)
       \/ SfSetStart(r)
       \/ SfSetAfterDelete(r)
       \/ SfSetFinish(r)
       \/ StoreComplete(r)
       \/ Respond(r)

SpecRegenerate == InitLogins /\ [][NextRegenerate]_vars

\* request r is a stateful set that carries the handle of the old session
\* and has completed
CompletedOnOldHandle(r) ==
    /\ req[r].store = "stateful" /\ req[r].op = "set"
    /\ IsSome(req[r].cookies[Identifier])
    /\ Get(req[r].cookies[Identifier])[1].ct.body.id = OldId
    /\ req[r].pc \in {"respond", "done"}
    /\ req[r].result = [k |-> "void"]
\* a regenerating set and a set that keeps the id, both on the old handle,
\* have both completed
RegenerateAndKeep ==
    \E r1, r2 \in Reqs :
       /\ CompletedOnOldHandle(r1) /\ req[r1].regen
       /\ CompletedOnOldHandle(r2) /\ ~req[r2].regen
\* C38: when a stateful set with regenerate and one without run at once on
\* two requests that both carry the handle of old session id X, then, in
\* whatever order their steps run, once both have completed the external
\* store holds no payload under X.  The code breaks it: the set that keeps
\* the id saves under X after the other has deleted X.
C38_StaysDead ==
    RegenerateAndKeep => extStore[OldId] = Undefined
\* what the code keeps: the regenerating set never saves under X, and X is
\* in the store after both only with the payload of the set that kept it
C38_OnlyKeeperSaves ==
    /\ \A r \in Reqs : \A i \in 1..Len(req[r].calls) :
          (req[r].regen /\ req[r].calls[i].m = "set") =>
             req[r].calls[i].id # OldId
    /\ RegenerateAndKeep =>
          \A r1, r2 \in Reqs :
             (CompletedOnOldHandle(r1) /\ req[r1].regen /\
              CompletedOnOldHandle(r2) /\ ~req[r2].regen) =>
                extStore[OldId] \in {Undefined, req[r2].payload}
\* C38 witness: the regenerating set deleted X and completed, the other set
\* completed too, and X is in the store again
C38_Witness ==
    \E r1, r2 \in Reqs :
       /\ CompletedOnOldHandle(r1) /\ req[r1].regen
       /\ Events(r1, "delete", {"done"}) # {}
       /\ CompletedOnOldHandle(r2) /\ ~req[r2].regen
       /\ req[r1].pc = "done" /\ req[r2].pc = "done"
       /\ extStore[OldId] = req[r2].payload

\* ------------------------------------------------------------------------
\* calculateMaxAge around the epoch second 2^31.  A number n is held as
\* [hi, lo] with n = hi * 2^31 + lo and 0 <= lo < 2^31, so that seconds
\* beyond 2^31 - 1 and the negative results of | 0 can be written down.
\* ------------------------------------------------------------------------
Int32Max == 2147483647
Wide(hi, lo) == [hi |-> hi, lo |-> lo]
\* w + n for 0 <= n <= Int32Max
WAdd(w, n) ==
    IF w.lo <= Int32Max - n THEN Wide(w.hi, w.lo + n)
    ELSE Wide(w.hi + 1, (w.lo - (Int32Max - n)) - 1)
\* a - b
WSub(a, b) ==
    IF a.lo >= b.lo THEN Wide(a.hi - b.hi, a.lo - b.lo)
    ELSE Wide(a.hi - b.hi - 1, ((a.lo - b.lo) + Int32Max) + 1)
WLess(a, b) == a.hi < b.hi \/ (a.hi = b.hi /\ a.lo < b.lo)
WMin(a, b) == IF WLess(b, a) THEN b ELSE a
WZero == Wide(0, 0)
\* ToInt32 of a whole number n >= 0: n modulo 2^32, read as a signed 32-bit
\* number
ToInt32(w) == Wide(IF w.hi % 2 = 0 THEN 0 ELSE -1, w.lo)
\* (Date.now() / 1000) | 0 on a clock that reads sec whole seconds and ms
\* milliseconds: the fraction is dropped, the rest goes through ToInt32
NowInt32(sec, ms) == ToInt32(WAdd(sec, ms \div MsPerSec))
\* AbstractSessionStore.calculateMaxAge on such a clock
calculateMaxAgeWide(cfg, createdAt, sec, ms) ==
    IF ~cfg.rolling
    THEN Wide(0, cfg.absoluteDuration)
    ELSE LET now == NowInt32(sec, ms)
             expiresAt == WMin(WAdd(now, cfg.inactivityDuration),
                               WAdd(createdAt, cfg.absoluteDuration))
             maxAge == WSub(expiresAt, now)
         IN  IF WLess(WZero, maxAge) THEN maxAge ELSE WZero

\* clocks and creation times on both sides of 2^31 seconds
WrapOffsets == {0, 1, 2, 3, 4}
WrapSeconds ==
    {Wide(0, Int32Max - d) : d \in WrapOffsets} \cup
    {Wide(1, d) : d \in WrapOffsets}
WrapMillis == {0, 999}
InitWrap ==
    /\ StoresAtRest
    /\ \E cfg \in Configs, c \in WrapSeconds, sec \in WrapSeconds,
          ms \in WrapMillis :
          /\ ~WLess(sec, c)
          /\ calc = [f |-> "wrap", cfg |-> cfg, createdAt |-> c, sec |-> sec,
                     ms |-> ms, now |-> Undefined, out |-> Undefined]
\* a second passes before the call
WrapTick ==
    /\ calc.f = "wrap"
    /\ calc.out = Undefined
    /\ WLess(calc.sec, Wide(1, MaxTime))
    /\ calc' = [calc EXCEPT !.sec = WAdd(@, 1)]
    /\ StoresUnchanged
\* calculateMaxAge is called
ApplyMaxAgeWide ==
    /\ calc.f = "wrap"
    /\ calc.out = Undefined
    /\ calc' = [calc EXCEPT
                  !.now = Some(NowInt32(calc.sec, calc.ms)),
                  !.out = Some(calculateMaxAgeWide(calc.cfg, calc.createdAt,
                                                   calc.sec, calc.ms))]
    /\ StoresUnchanged

NextWrap ==
    \/ WrapTick
    \/ ApplyMaxAgeWide

SpecWrap == InitWrap /\ [][NextWrap]_vars

\* calculateMaxAge has been called with rolling expiration
WrapApplied == calc.f = "wrap" /\ calc.out # Undefined /\ calc.cfg.rolling
\* the absolute cap createdAt + absoluteDuration has passed
CapPassed ==
    ~WLess(calc.sec, WAdd(calc.createdAt, calc.cfg.absoluteDuration))
\* C39: the current time calculateMaxAge uses is floor(wall-clock
\* milliseconds / 1000) at every wall-clock time, also at epoch seconds of
\* 2^31 and more, so the max-age never reaches beyond createdAt +
\* absoluteDuration and is 0 once that has passed.  The code breaks it from
\* epoch second 2^31 on, where | 0 wraps to a negative number.
C39_NoWrap ==
    WrapApplied =>
       /\ Get(calc.now) = calc.sec
       /\ Get(calc.out) # WZero =>
             /\ Get(calc.out).hi = 0
             /\ ~WLess(WAdd(calc.createdAt, calc.cfg.absoluteDuration),
                       WAdd(calc.sec, Get(calc.out).lo))
       /\ CapPassed => Get(calc.out) = WZero
\* what the code keeps: the same, for clocks below 2^31 seconds
C39_BelowWrap ==
    (WrapApplied /\ calc.sec.hi = 0) =>
       /\ Get(calc.now) = calc.sec
       /\ Get(calc.out) # WZero =>
             /\ Get(calc.out).hi = 0
             /\ ~WLess(WAdd(calc.createdAt, calc.cfg.absoluteDuration),
                       WAdd(calc.sec, Get(calc.out).lo))
       /\ CapPassed => Get(calc.out) = WZero
\* C39 witness: at epoch second 2^31 + 3, a session created at 2^31, its
\* absolute cap of 2 seconds passed: now is read as -2^31 + 3 and the
\* max-age is the whole inactivity window
C39_Witness ==
    /\ WrapApplied
    /\ calc.sec = Wide(1, 3)
    /\ calc.createdAt = Wide(1, 0)
    /\ CapPassed
    /\ Get(calc.now) = Wide(-1, 3)
    /\ Get(calc.out) = Wide(0, calc.cfg.inactivityDuration)

====
